---- MODULE Spec2Model ----
(***************************************************************************)
(* A model of simple-sip-rs: the SipManager and the registration handshake *)
(* of SipSocket, the socket task's dispatch of inbound messages, the       *)
(* pre-answer state machines (IncomingCall, OutgoingCall) and the per-call *)
(* CallHandler task with the Call's control and media channels.            *)
(*                                                                         *)
(* RegSpec  : SipManager::start / stop and SipSocket::register.            *)
(* Spec     : one dialog on a registered, running socket task.             *)
(* OutSpec  : one OutgoingCall and every kind of answer to its INVITE.     *)
(* PortSpec : SipContext::get_next_udp_port.                               *)
(* HdrSpec  : the headers of the replies to received requests.             *)
(* DecSpec  : the cutting of the TCP stream into SIP messages.             *)
(* TevSpec  : TelephoneEventsCodec::decode_payload.                        *)
(* PlaySpec : Call::block_for_output_empty and the RTP session's output.   *)
(* RouteSpec: the Call-ID routing table with several dialogs.              *)
(* LockSpec : the mutexes held over sends into the bounded channels.       *)
(***************************************************************************)
EXTENDS Naturals, Sequences, FiniteSets, TLC

(***************************************************************************)
(* Bounds of the model.                                                    *)
(***************************************************************************)
\* number of SipManager::start() calls in one run
MaxStarts == 2
\* number of messages the server sends on the TCP stream after registration
MaxPeerMsgs == 3
\* number of Call::hangup() calls of the application that return Ok
MaxHangups == 2
\* calls of get_next_udp_port
MaxPorts == 6

(***************************************************************************)
(* Program constants.                                                      *)
(***************************************************************************)
\* generate_register_request: CSeq { seq: 1, method: Register }
RegisterCSeq == 1
\* SipSocket::register: req.cseq_header_mut()?.mut_seq(2)
RegisterRetryCSeq == 2
\* OutgoingCall::try_from: cseq: 1234
InitialCSeq == 1234
\* SipSocket::connect: channel(64), the outbound SipMessage channel
OutboundCap == 64
\* SocketData::create_call_channel: mpsc::channel(32)
CallChannelCap == 32
\* SipManager::from_config: tokio::sync::mpsc::channel(32)
IncomingCap == 32

(***************************************************************************)
(* SIP messages.  t: "req" | "res"; m: the method (for a response, the     *)
(* method of its CSeq header); code: the status code (0 for a request);    *)
(* cseq: the CSeq number; x: what else the code looks at                   *)
(*   INVITE request : the kind of its SDP body: "ok"; "bad", which does    *)
(*                    not parse; "nocodec", which parses but which         *)
(*                    RTPSession::new refuses (no media section, no IP     *)
(*                    address in c=, a codec attribute that is malformed)  *)
(*   401 response   : its WWW-Authenticate header ("chal", "bad", "none")  *)
(*   200 to INVITE  : its SDP, "ok" or "nocodec" as for the INVITE;        *)
(*                    "notag" (To without tag); "badsdp" (does not parse)  *)
(*   REGISTER/INVITE we send : "auth" when it has an Authorization header  *)
(*   a response we send : "sdp" when it carries the local SDP              *)
(***************************************************************************)
Req(m, cseq, x) == [t |-> "req", m |-> m, code |-> 0, cseq |-> cseq, x |-> x]
Res(m, code, cseq, x) == [t |-> "res", m |-> m, code |-> code, cseq |-> cseq, x |-> x]

IsReq(msg, m) == msg.t = "req" /\ msg.m = m
IsRes(msg, m, code) == msg.t = "res" /\ msg.m = m /\ msg.code = code

\* How many elements of the sequence s satisfy Test
Count(s, Test(_)) == Len(SelectSeq(s, Test))

\* Index of the first element of s that satisfies Test, 0 when there is none
FirstIndex(s, Test(_)) ==
    LET I == {i \in 1..Len(s) : Test(s[i])}
    IN IF I = {} THEN 0 ELSE CHOOSE i \in I : \A j \in I : i <= j

\* The Call-ID of the one dialog the model follows.
CallId == "d"
\* CSeq numbers the server may give its INVITE.
RemoteCSeqs == {20}
\* No message (OutgoingCall.response = None).
NoMsg == [t |-> "none", m |-> "", code |-> 0, cseq |-> 0, x |-> ""]

VARIABLES
    \* ---- SipManager and the registration handshake
    inner,          \* SipManager.inner is Some
    starts,         \* number of start() calls made
    start_result,   \* outcome of the last start(): "none" | "pending" | "ok" | "err" | "panic"
    reg_pc,         \* SipSocket::register: "idle" | "wait1" | "wait2"
    registers,      \* REGISTER requests the current start() has written, or tried to
    reg_in,         \* messages read by register() during the current start()
    handle,         \* the socket task: "none" | "running" | "finished"
    stream_eof,     \* the server closed the TCP stream: a read returns 0 bytes
    \* ---- the socket task (SipSocket::run) and SocketData
    sock_pc,        \* "select" | "ring" | "enqueue": position inside handle_sip_request
    message_channel,\* content of the bounded outbound channel (message_receiver)
    sent,           \* history: every message accepted by the outbound channel
    call_channels,  \* SocketData.call_channels: the Call-IDs that have a Sender
    call_queue,     \* content of the dialog's bounded inbound channel
    call_rx,        \* the dialog's Receiver (its CallConnection) exists
    incoming_queue, \* content of the manager's incoming-call channel
    peer_msgs,      \* number of messages the server has sent
    peer_cseq,      \* CSeq number of the server's last INVITE (0: none yet)
    \* ---- the dialog as the application sees it
    dir,            \* "none" | "in" | "out"
    dialog,         \* "none" | "incoming" | "held" | "waiting" | "spawning" | "call"
                    \* | "cancelled" | "rejected" | "failed" | "dropped"
    app_op,         \* the consuming call made: "none" | "accept" | "reject" | "answer" | "cancel"
    app_result,     \* its result: "none" | "ok" | "cancelled" | "rejected" | "err"
    drained_cancel, \* get_cancel_request returned Some in accept()/reject()
    out_cseq,       \* OutgoingCall.cseq
    out_response,   \* OutgoingCall.response
    remote_sdp,     \* SessionParameters.remote.sdp: "" | "ok" | "nocodec"
    cseq,           \* SessionParameters.cseq
    dialog_cseq,    \* history: CSeq number of the INVITE transaction that set up the dialog
    \* ---- the Call and its two tasks
    h_pc,           \* call_task: "none" | "check" | "next" | "select" | "finished" | "gone"
    h_abort,        \* JoinHandle::abort was called on the signaling task
    is_terminated,  \* CallHandler.is_terminated
    ctl_in,         \* control channel, application -> CallHandler
    ctl_out,        \* control channel, CallHandler -> application
    app_ctl,        \* history: what Call::recv has yielded
    call_held,      \* the application holds the Call (it was not dropped)
    hangups,        \* number of Call::hangup() calls that returned Ok
    rtp,            \* rtp_task: "none" | "starting" | "running" | "failed" | "aborted"
    handled_terminated, \* history: the CallHandler handled a message while terminated
    bye_responses,  \* history: responses to BYE delivered to the dialog's channel
    late_results,   \* history: the operations ("hangup", "send_audio") that returned
                    \* Ok after Finished was yielded
    \* ---- SipContext: the allocator of the local RTP ports
    rtp_port_start, \* Config.rtp_port_start
    rtp_port_end,   \* Config.rtp_port_end
    next_udp_port,  \* SipContext.next_udp_port
    ports,          \* history: the ports get_next_udp_port has returned
    wrap_at,        \* history: the number of ports returned when next_udp_port
                    \* was first set back to rtp_port_start (0: not yet)
    ctx_panic,      \* get_next_udp_port panicked on the overflow of the u16
    \* ---- the headers of the replies to received requests
    hdr_session,    \* SessionParameters built from the INVITE (NoSession: none)
    hdr_request,    \* the headers of the request received last
    hdr_reply,      \* the headers of the reply made to it (NoHeaders: none)
    \* ---- the decoding of the TCP stream into SIP messages
    dec_impl,       \* "socket": SipSocket::run / get_next_message;
                    \* "decoder": SipMessageDecoder::decode
    wire,           \* the bytes of the stream that were not read yet
    buffer,         \* SipSocket.buffer (the src of SipMessageDecoder::decode)
    pending_message,\* SipMessageDecoder.pending_message (NoPending: None)
    frames,         \* history: the messages decoded
    discarded,      \* history: the number of keep-alives discarded
    dec_err,        \* "none" | "err": run() returned Err | "panic": unwrap panicked
    \* ---- TelephoneEventsCodec::decode_payload
    pressed_keys,   \* TelephoneEventsCodec.pressed_keys
    tev_out,        \* history: the (event, end) notifications returned
    tev_result,     \* the last result: "none" (no call yet) | "some" | "nothing" | "err"
    tev_packets,    \* history: the number of payloads decoded
    \* ---- Call::block_for_output_empty and the RTP session's output
    media_in,       \* media channel, application to RTP session
    media_out,      \* media channel, RTP session to application
    control_out,    \* control channel, call handler to application
    buffer_out,     \* frames in the audio codec's buffer_out
    notified_empty, \* RTPSession.notified_empty
    block,          \* block_for_output_empty: "idle" | "blocked" | "returned"
    audio_sent,     \* history: the number of send_audio calls
    play_handler,   \* the call handler: "running" | "terminated" | "dropped"
    codec,          \* the codec of the session that takes the audio: "opus" | "pcmu" | "pcma"
    \* ---- the routing table with several dialogs
    route_channels, \* SocketData.call_channels: Call-ID -> content of the channel
    route_rx,       \* the Call-IDs whose Receiver exists
    route_top,      \* history: the messages given to handle_message
    route_msgs,     \* history: the number of messages read
    route_last,     \* history: the message read last
    \* ---- the mutexes and the fill of the bounded channels
    lk_sock,        \* the socket task: "select" | "forward" | "want_context" | "ring" | "enqueue"
    lk_mgr,         \* InnerSipManager::call: "idle" | "want_data" | "invite"
    lk_context,     \* the holder of the SipContext mutex: "free" | "socket" | "manager"
    lk_data,        \* the holder of the SocketData mutex: "free" | "socket"
    lk_out,         \* messages in the outbound channel
    lk_chan,        \* messages in the inbound channel of the dialog that is not drained
    lk_incoming     \* IncomingCalls in the manager's incoming queue

regVars == <<inner, starts, start_result, reg_pc, registers, reg_in, handle,
             stream_eof>>

sockVars == <<sock_pc, message_channel, sent, call_channels, call_queue,
              call_rx, incoming_queue, peer_msgs, peer_cseq>>

dlgVars == <<dir, dialog, app_op, app_result, drained_cancel, out_cseq,
             out_response, remote_sdp, cseq, dialog_cseq>>

callVars == <<h_pc, h_abort, is_terminated, ctl_in, ctl_out, app_ctl, call_held,
              hangups, rtp, handled_terminated, bye_responses, late_results>>

ctxVars == <<rtp_port_start, rtp_port_end, next_udp_port, ports, wrap_at, ctx_panic>>

hdrVars == <<hdr_session, hdr_request, hdr_reply>>

decVars == <<dec_impl, wire, buffer, pending_message, frames, discarded, dec_err>>

tevVars == <<pressed_keys, tev_out, tev_result, tev_packets>>

playVars ==
    <<media_in, media_out, control_out, buffer_out, notified_empty, block, audio_sent,
      play_handler, codec>>

routeVars == <<route_channels, route_rx, route_top, route_msgs, route_last>>

lockVars == <<lk_sock, lk_mgr, lk_context, lk_data, lk_out, lk_chan, lk_incoming>>

\* The components that are checked on their own.
unitVars == <<ctxVars, hdrVars, decVars, tevVars, playVars, routeVars, lockVars>>

\* The variables of the manager, the socket task and the dialog.
sipVars == <<regVars, sockVars, dlgVars, callVars>>

vars == <<sipVars, unitVars>>

\* The range of the example of SipManager (manager.rs 61-62).
ExamplePortStart == 20480
ExamplePortEnd == 20490

\* SipContext::from_config on the example configuration; nothing allocated.
CtxIdle ==
    /\ rtp_port_start = ExamplePortStart
    /\ rtp_port_end = ExamplePortEnd
    /\ next_udp_port = ExamplePortStart
    /\ ports = <<>>
    /\ wrap_at = 0
    /\ ctx_panic = FALSE

\* Headers: an address header is [name, uri, tag] (tag "": none).
NoHeaders == [method |-> "", status |-> 0, via |-> "", from |-> <<>>, to |-> <<>>,
              call_id |-> "", cseq |-> 0]
NoSession == [call_id |-> "", remote_uri |-> "", remote_tag |-> "",
              local_uri |-> "", local_tag |-> ""]

\* No request was received.
HdrIdle ==
    /\ hdr_session = NoSession
    /\ hdr_request = NoHeaders
    /\ hdr_reply = NoHeaders

\* A decoded message: the bytes of its header block, the value of its
\* Content-Length header, the bytes of its body.
NoPending == [head |-> <<>>, content_length |-> 0, body |-> <<>>, none |-> TRUE]

\* Nothing was read.
DecIdle ==
    /\ dec_impl = "socket"
    /\ wire = <<>>
    /\ buffer = <<>>
    /\ pending_message = NoPending
    /\ frames = <<>>
    /\ discarded = 0
    /\ dec_err = "none"

\* TelephoneEventsCodec::try_from_sdp: no key is pressed.
TevIdle ==
    /\ pressed_keys = {}
    /\ tev_out = <<>>
    /\ tev_result = "none"
    /\ tev_packets = 0

\* Call::new and RTPSession::new: empty channels, empty codec buffer,
\* notified_empty set.
\* RTPSession::new, and a Call that has sent no audio
PlayStart ==
    /\ media_in = <<>>
    /\ media_out = <<>>
    /\ control_out = <<>>
    /\ buffer_out = 0
    /\ notified_empty = TRUE
    /\ block = "idle"
    /\ audio_sent = 0
    /\ play_handler = "running"

PlayIdle == PlayStart /\ codec = "pcmu"

\* SocketData::default(): no entry; no message read.
RouteIdle ==
    /\ route_channels = [c \in {} |-> <<>>]
    /\ route_rx = {}
    /\ route_top = <<>>
    /\ route_msgs = 0
    /\ route_last = [call_id |-> "", method |-> "", n |-> 0]

\* Both tasks idle, both mutexes free, the channels empty.
LockIdle ==
    /\ lk_sock = "select"
    /\ lk_mgr = "idle"
    /\ lk_context = "free"
    /\ lk_data = "free"
    /\ lk_out = 0
    /\ lk_chan = 0
    /\ lk_incoming = 0

\* The components checked on their own, before anything is done with them.
UnitIdle == CtxIdle /\ HdrIdle /\ DecIdle /\ TevIdle /\ PlayIdle /\ RouteIdle /\ LockIdle

(***************************************************************************)
(* SipManager::start and SipSocket::register                               *)
(***************************************************************************)
\* What the server may answer during the handshake.
RegReplies ==
    {Res("REGISTER", c, n, "") : c \in {200, 403}, n \in {RegisterCSeq, RegisterRetryCSeq}}
    \cup {Res("REGISTER", 401, n, x) : n \in {RegisterCSeq, RegisterRetryCSeq},
                                       x \in {"chal", "bad", "none"}}
    \cup {Req("OPTIONS", 1, "")}

\* generate_register_request
generate_register_request == Req("REGISTER", RegisterCSeq, "")

\* Mutant: the retry is sent without the Authorization header.
register_without_auth == Req("REGISTER", RegisterRetryCSeq, "")

\* add_auth_header followed by mut_seq(2)
register_with_auth == Req("REGISTER", RegisterRetryCSeq, "auth")

\* No dialog, no Call, an empty socket.
NoDialog ==
    /\ sock_pc = "select"
    /\ message_channel = <<>>
    /\ sent = <<>>
    /\ call_channels = {}
    /\ call_queue = <<>>
    /\ call_rx = FALSE
    /\ incoming_queue = <<>>
    /\ peer_msgs = 0
    /\ peer_cseq = 0
    /\ dir = "none"
    /\ dialog = "none"
    /\ app_op = "none"
    /\ app_result = "none"
    /\ drained_cancel = FALSE
    /\ out_cseq = 0
    /\ out_response = NoMsg
    /\ remote_sdp = ""
    /\ cseq = 0
    /\ dialog_cseq = 0
    /\ h_pc = "none"
    /\ h_abort = FALSE
    /\ is_terminated = FALSE
    /\ ctl_in = <<>>
    /\ ctl_out = <<>>
    /\ app_ctl = <<>>
    /\ call_held = FALSE
    /\ hangups = 0
    /\ rtp = "none"
    /\ handled_terminated = FALSE
    /\ bye_responses = 0
    /\ late_results = {}

\* No manager is started and there is no dialog.
SipIdle ==
    /\ inner = FALSE
    /\ starts = 0
    /\ start_result = "none"
    /\ reg_pc = "idle"
    /\ registers = <<>>
    /\ reg_in = <<>>
    /\ handle = "none"
    /\ stream_eof = FALSE
    /\ NoDialog

\* SipManager::from_config: nothing is connected.
RegInit ==
    /\ inner = FALSE
    /\ starts = 0
    /\ start_result = "none"
    /\ reg_pc = "idle"
    /\ registers = <<>>
    /\ reg_in = <<>>
    /\ handle = "none"
    /\ stream_eof = FALSE
    /\ UnitIdle
    /\ NoDialog

\* InnerSipManager::connect after SipSocket::connect returned Ok: the run
\* loop is spawned and SipManager::start stores the InnerSipManager.
RegisterOk ==
    /\ reg_pc' = "idle"
    /\ start_result' = "ok"
    /\ handle' = "running"
    /\ inner' = TRUE

\* register() returned Err (or panicked): connect and start propagate it,
\* the SipSocket is dropped and nothing is spawned.
RegisterFail(how) ==
    /\ reg_pc' = "idle"
    /\ start_result' = how
    /\ UNCHANGED <<handle, inner>>

\* SipManager::start up to the first read of register(): stop(), the TCP
\* connect, and the write of the first REGISTER.  (The model follows one
\* socket task at a time: start() is taken when none is running.)
Start(tcp_ok, write_ok) ==
    /\ reg_pc = "idle"
    /\ handle # "running"
    /\ dir = "none"
    /\ starts < MaxStarts
    /\ starts' = starts + 1
    /\ inner' = FALSE
    /\ reg_in' = <<>>
    /\ stream_eof' = FALSE
    /\ IF ~tcp_ok
       THEN /\ registers' = <<>>
            /\ start_result' = "err"
            /\ reg_pc' = "idle"
       ELSE /\ registers' = <<generate_register_request>>
            /\ start_result' = IF write_ok THEN "pending" ELSE "err"
            /\ reg_pc' = IF write_ok THEN "wait1" ELSE "idle"
    /\ UNCHANGED <<handle, unitVars, sockVars, dlgVars, callVars>>

\* register(): the first read_next_message returned msg.
RegFirstResponse(msg, write_ok) ==
    /\ reg_pc = "wait1"
    /\ reg_in' = Append(reg_in, msg)
    /\ UNCHANGED <<starts, stream_eof, unitVars, sockVars, dlgVars, callVars>>
    /\ IF msg.t # "res" THEN RegisterFail("err") /\ UNCHANGED registers
       ELSE IF msg.code = 401 THEN
            \* www_authenticate_header().unwrap().clone().into_typed()?
            IF msg.x = "none" THEN RegisterFail("panic") /\ UNCHANGED registers
            ELSE IF msg.x = "bad" THEN RegisterFail("err") /\ UNCHANGED registers
            ELSE /\ registers' = Append(registers, register_with_auth)
                 /\ IF write_ok
                    THEN reg_pc' = "wait2" /\ UNCHANGED <<start_result, handle, inner>>
                    ELSE RegisterFail("err")
       ELSE IF msg.code = 200 THEN RegisterOk /\ UNCHANGED registers
       ELSE RegisterFail("err") /\ UNCHANGED registers

\* register(): the read_next_message after the authenticated REGISTER.
RegSecondResponse(msg) ==
    /\ reg_pc = "wait2"
    /\ reg_in' = Append(reg_in, msg)
    /\ UNCHANGED <<starts, registers, stream_eof, unitVars, sockVars, dlgVars, callVars>>
    /\ IF msg.t = "res" /\ msg.code = 200 THEN RegisterOk ELSE RegisterFail("err")

\* read_next_message: stream.read(...).await? failed.
RegReadError ==
    /\ reg_pc \in {"wait1", "wait2"}
    /\ RegisterFail("err")
    /\ UNCHANGED <<starts, registers, reg_in, stream_eof, unitVars, sockVars, dlgVars, callVars>>

\* SipManager::is_running
is_running == inner /\ handle = "running"

\* SipManager::stop: drop(self.inner.take()).  InnerSipManager::stop aborts
\* the task only when it is NOT running, so a running task is detached and
\* keeps running.  The routing table (Arc<Mutex<SocketData>>) is freed when
\* the socket task no longer holds it either.
ManagerStop ==
    /\ inner = TRUE
    /\ reg_pc = "idle"
    /\ inner' = FALSE
    /\ call_channels' = IF handle = "running" THEN call_channels ELSE {}
    /\ UNCHANGED <<starts, start_result, reg_pc, registers, reg_in, handle, stream_eof, unitVars>>
    /\ UNCHANGED <<sock_pc, message_channel, sent, call_queue, call_rx,
                   incoming_queue, peer_msgs, peer_cseq>>
    /\ UNCHANGED <<dlgVars, callVars>>

\* SipSocket::run returns: the SipSocket is dropped, and with it the
\* outbound channel's Receiver and the task's handle on the routing table.
SocketExits(channels) ==
    /\ handle' = "finished"
    /\ sock_pc' = "select"
    /\ message_channel' = <<>>
    /\ call_channels' = IF inner THEN channels ELSE {}

\* run(): self.stream.read(&mut read_buffer) returned an error.
SockReadError ==
    /\ handle = "running"
    /\ sock_pc = "select"
    /\ SocketExits(call_channels)
    /\ UNCHANGED <<inner, starts, start_result, reg_pc, registers, reg_in, stream_eof, unitVars>>
    /\ UNCHANGED <<sent, call_queue, call_rx, incoming_queue, peer_msgs, peer_cseq>>
    /\ UNCHANGED <<dlgVars, callVars>>

\* run(): self.stream.read(&mut read_buffer) returned Ok(0), the end of the
\* stream.  Nothing is appended to the buffer, get_next_message returns
\* Ok(None) and the loop goes to its next turn; every later read returns 0.
SockReadEof ==
    /\ handle = "running"
    /\ sock_pc = "select"
    /\ ~stream_eof
    /\ stream_eof' = TRUE
    /\ UNCHANGED <<inner, starts, start_result, reg_pc, registers, reg_in, handle>>
    /\ UNCHANGED <<unitVars, sockVars, dlgVars, callVars>>

RegNext ==
    \/ \E tcp_ok \in BOOLEAN, write_ok \in BOOLEAN : Start(tcp_ok, write_ok)
    \/ \E msg \in RegReplies, write_ok \in BOOLEAN : RegFirstResponse(msg, write_ok)
    \/ \E msg \in RegReplies : RegSecondResponse(msg)
    \/ RegReadError
    \/ ManagerStop
    \/ SockReadError
    \/ SockReadEof

RegSpec == RegInit /\ [][RegNext]_vars

(***************************************************************************)
(* The socket task: SipSocket::run on a registered connection              *)
(***************************************************************************)
\* The outbound channel accepts a message: its Receiver lives in the
\* SipSocket, which lives as long as the socket task.
OutboundOpen == handle = "running"

\* Mutant: the reply echoes the request's CSeq number but names INVITE.
generate_response_invite_cseq(request, status_code, x) ==
    Res("INVITE", status_code, request.cseq, x)

\* IncomingCall::generate_response / SessionParameters::get_headers_response:
\* the reply carries the request's CSeq header (number and method).
generate_response(request, status_code, x) ==
    Res(request.m, status_code, request.cseq, x)

\* What the server may send on the registered connection.  Every message
\* carries the dialog's Call-ID but OPTIONS, which has a Call-ID of its own.
\* The server sends one INVITE.  Responses are sent to
\* requests of ours only: to an INVITE of the OutgoingCall (echoing the CSeq
\* number of one INVITE sent so far), to the BYE of the CallHandler.
PeerRequests ==
    (IF dir = "none"
     THEN {Req("INVITE", n, x) : n \in RemoteCSeqs, x \in {"ok", "nocodec", "bad"}}
     ELSE {})
    \cup {Req("CANCEL", peer_cseq, ""), Req("ACK", peer_cseq, ""),
          Req("BYE", peer_cseq + 1, ""), Req("OPTIONS", 1, "")}

PeerResponses ==
    (IF dir = "out" /\ dialog = "waiting"
     THEN {Res("INVITE", c, n, "") : c \in {180, 486}, n \in InitialCSeq..out_cseq}
          \cup {Res("INVITE", 401, n, x) : n \in InitialCSeq..out_cseq,
                                           x \in {"chal", "none"}}
          \cup {Res("INVITE", 200, n, x) : n \in InitialCSeq..out_cseq,
                                           x \in {"ok", "nocodec", "notag", "badsdp"}}
          \cup {Res("REGISTER", 200, 1, "")}
     ELSE {})
    \cup {Res("BYE", 200, m.cseq, "") : m \in {y \in {sent[i] : i \in 1..Len(sent)} : IsReq(y, "BYE")}}

PeerMessages == PeerRequests \cup PeerResponses

\* run(): a message was read from the stream and decoded.
\* handle_call_message forwards it to the dialog whose Call-ID it carries
\* (dropping the routing entry when the dialog's Receiver is gone);
\* otherwise handle_message / handle_sip_request treats it at top level.
SockRecv(msg, write_ok) ==
    /\ handle = "running"
    /\ sock_pc = "select"
    /\ ~stream_eof
    /\ peer_msgs < MaxPeerMsgs
    /\ peer_msgs' = peer_msgs + 1
    /\ peer_cseq' = IF IsReq(msg, "INVITE") THEN msg.cseq ELSE peer_cseq
    /\ UNCHANGED <<inner, starts, start_result, reg_pc, registers, reg_in, stream_eof, unitVars>>
    /\ UNCHANGED <<sent, incoming_queue>>
    /\ UNCHANGED <<dialog, app_op, app_result, drained_cancel, out_cseq, out_response,
                   dialog_cseq>>
    /\ UNCHANGED <<h_pc, h_abort, is_terminated, ctl_in, ctl_out, app_ctl, call_held,
                   hangups, rtp, handled_terminated, late_results>>
    /\ IF CallId \in call_channels /\ ~IsReq(msg, "OPTIONS")
       THEN \* handle_call_message
            /\ UNCHANGED <<handle, sock_pc, message_channel, dir, remote_sdp, cseq>>
            /\ IF call_rx
               THEN /\ Len(call_queue) < CallChannelCap
                    /\ call_queue' = Append(call_queue, msg)
                    /\ bye_responses' = bye_responses + (IF IsRes(msg, "BYE", 200) THEN 1 ELSE 0)
                    /\ UNCHANGED <<call_channels, call_rx>>
               ELSE /\ call_channels' = call_channels \ {CallId}
                    /\ UNCHANGED <<call_queue, call_rx, bye_responses>>
       ELSE \* handle_message
            /\ UNCHANGED bye_responses
            /\ IF IsReq(msg, "OPTIONS")
               THEN \* generate_options_response, written to the stream directly
                    /\ IF write_ok
                       THEN UNCHANGED <<handle, sock_pc, message_channel, call_channels>>
                       ELSE SocketExits(call_channels)
                    /\ UNCHANGED <<call_queue, call_rx, dir, remote_sdp, cseq>>
               ELSE IF IsReq(msg, "INVITE")
               THEN \* create_call_channel, then IncomingCall::try_from_request
                    /\ UNCHANGED call_queue
                    /\ IF msg.x = "bad"
                       THEN \* SessionParameters::from_request fails on parse_sdp:
                            \* the error leaves run(), the new Receiver is dropped
                            /\ SocketExits(call_channels \cup {CallId})
                            /\ UNCHANGED <<call_rx, dir, remote_sdp, cseq>>
                       ELSE /\ call_channels' = call_channels \cup {CallId}
                            /\ call_rx' = TRUE
                            /\ dir' = "in"
                            /\ remote_sdp' = msg.x
                            /\ cseq' = msg.cseq
                            /\ sock_pc' = "ring"
                            /\ UNCHANGED <<handle, message_channel>>
               ELSE \* a response, or a request of another method: ignored
                    UNCHANGED <<handle, sock_pc, message_channel, call_channels,
                                call_queue, call_rx, dir, remote_sdp, cseq>>

\* Mutant: the IncomingCall is built without sending 180 Ringing.
send_ringing_skipped(request) ==
    /\ UNCHANGED <<message_channel, sent>>

\* IncomingCall::send_ringing: 180 Ringing for the INVITE goes into the
\* outbound channel (the send waits while the channel is full).
send_ringing(request) ==
    /\ Len(message_channel) < OutboundCap
    /\ message_channel' = Append(message_channel, generate_response(request, 180, ""))
    /\ sent' = Append(sent, generate_response(request, 180, ""))

\* handle_sip_request, INVITE: try_from_request sends 180 Ringing.
SockRing ==
    /\ handle = "running"
    /\ sock_pc = "ring"
    /\ send_ringing(Req("INVITE", cseq, remote_sdp))
    /\ sock_pc' = "enqueue"
    /\ UNCHANGED <<regVars, unitVars>>
    /\ UNCHANGED <<call_channels, call_queue, call_rx, incoming_queue,
                   peer_msgs, peer_cseq>>
    /\ UNCHANGED <<dlgVars, callVars>>

\* handle_sip_request, INVITE: self.incoming_call_sender.send(call).
SockEnqueue ==
    /\ handle = "running"
    /\ sock_pc = "enqueue"
    /\ Len(incoming_queue) < IncomingCap
    /\ incoming_queue' = Append(incoming_queue, CallId)
    /\ dialog' = "incoming"
    /\ sock_pc' = "select"
    /\ UNCHANGED <<regVars, unitVars>>
    /\ UNCHANGED <<message_channel, sent, call_channels, call_queue, call_rx,
                   peer_msgs, peer_cseq>>
    /\ UNCHANGED <<dir, app_op, app_result, drained_cancel, out_cseq, out_response,
                   remote_sdp, cseq, dialog_cseq>>
    /\ UNCHANGED callVars

\* run(): a message was taken from the outbound channel and written.
SockWrite(write_ok) ==
    /\ handle = "running"
    /\ sock_pc = "select"
    /\ message_channel # <<>>
    /\ IF write_ok
       THEN /\ message_channel' = Tail(message_channel)
            /\ UNCHANGED <<handle, sock_pc, call_channels>>
       ELSE SocketExits(call_channels)
    /\ UNCHANGED <<inner, starts, start_result, reg_pc, registers, reg_in, stream_eof, unitVars>>
    /\ UNCHANGED <<sent, call_queue, call_rx, incoming_queue, peer_msgs, peer_cseq>>
    /\ UNCHANGED <<dlgVars, callVars>>

(***************************************************************************)
(* IncomingCall: recv_incoming_call, accept, reject                        *)
(***************************************************************************)
\* The INVITE the IncomingCall was built from (IncomingCall.request).
IncomingRequest == Req("INVITE", cseq, remote_sdp)

\* CallConnection::send_message on the outbound channel: the message is
\* queued when the channel is open (waiting for room), Err when it is closed.
SendOutbound(msg) ==
    /\ OutboundOpen => Len(message_channel) < OutboundCap
    /\ message_channel' = IF OutboundOpen THEN Append(message_channel, msg)
                          ELSE message_channel
    /\ sent' = IF OutboundOpen THEN Append(sent, msg) ELSE sent

\* Mutant: only the message at the head of the channel is looked at.
get_cancel_request_head_only(q) ==
    IF q # <<>> /\ IsReq(Head(q), "CANCEL")
    THEN [found |-> TRUE, request |-> Head(q), rest |-> Tail(q)]
    ELSE [found |-> FALSE, request |-> NoMsg, rest |-> IF q = <<>> THEN q ELSE Tail(q)]

\* IncomingCall::get_cancel_request: try_recv until the channel is empty;
\* the first CANCEL request ends the loop, everything before it is dropped.
get_cancel_request(q) ==
    LET IsCancel(m) == IsReq(m, "CANCEL")
        i == FirstIndex(q, IsCancel)
    IN IF i = 0
       THEN [found |-> FALSE, request |-> NoMsg, rest |-> <<>>]
       ELSE [found |-> TRUE, request |-> q[i], rest |-> SubSeq(q, i + 1, Len(q))]

\* SipManager::recv_incoming_call / IncomingCallReceiver::recv
AppRecvIncoming ==
    /\ dialog = "incoming"
    /\ incoming_queue # <<>>
    /\ incoming_queue' = Tail(incoming_queue)
    /\ dialog' = "held"
    /\ UNCHANGED <<regVars, unitVars>>
    /\ UNCHANGED <<sock_pc, message_channel, sent, call_channels, call_queue,
                   call_rx, peer_msgs, peer_cseq>>
    /\ UNCHANGED <<dir, app_op, app_result, drained_cancel, out_cseq, out_response,
                   remote_sdp, cseq, dialog_cseq>>
    /\ UNCHANGED callVars

\* IncomingCall::accept up to Call::new.
Accept ==
    /\ dialog = "held"
    /\ app_op' = "accept"
    /\ LET got == get_cancel_request(call_queue)
       IN /\ drained_cancel' = got.found
          /\ IF got.found
             THEN \* 200 OK to the CANCEL, then Ok(Cancelled); self is dropped
                  /\ SendOutbound(generate_response(got.request, 200, ""))
                  /\ app_result' = IF OutboundOpen THEN "cancelled" ELSE "err"
                  /\ dialog' = IF OutboundOpen THEN "cancelled" ELSE "failed"
                  /\ call_rx' = FALSE
                  /\ call_queue' = <<>>
                  /\ UNCHANGED dialog_cseq
             ELSE \* 200 OK to the INVITE with the local SDP
                  /\ SendOutbound(generate_response(IncomingRequest, 200, "sdp"))
                  /\ app_result' = IF OutboundOpen THEN "none" ELSE "err"
                  /\ dialog' = IF OutboundOpen THEN "spawning" ELSE "failed"
                  /\ call_rx' = OutboundOpen
                  /\ call_queue' = IF OutboundOpen THEN got.rest ELSE <<>>
                  /\ dialog_cseq' = IF OutboundOpen THEN cseq ELSE dialog_cseq
    /\ UNCHANGED <<regVars, unitVars>>
    /\ UNCHANGED <<sock_pc, call_channels, incoming_queue, peer_msgs, peer_cseq>>
    /\ UNCHANGED <<dir, out_cseq, out_response, remote_sdp, cseq>>
    /\ UNCHANGED callVars

\* IncomingCall::reject
Reject ==
    /\ dialog = "held"
    /\ app_op' = "reject"
    /\ LET got == get_cancel_request(call_queue)
       IN /\ drained_cancel' = got.found
          /\ call_queue' = <<>>
          /\ IF got.found
             THEN SendOutbound(generate_response(got.request, 200, ""))
             ELSE SendOutbound(generate_response(IncomingRequest, 600, ""))
    /\ app_result' = IF OutboundOpen THEN "ok" ELSE "err"
    /\ dialog' = IF OutboundOpen THEN "rejected" ELSE "failed"
    /\ call_rx' = FALSE
    /\ UNCHANGED <<regVars, unitVars>>
    /\ UNCHANGED <<sock_pc, call_channels, incoming_queue, peer_msgs, peer_cseq>>
    /\ UNCHANGED <<dir, out_cseq, out_response, remote_sdp, cseq, dialog_cseq>>
    /\ UNCHANGED callVars

\* Call::new: the signaling task and the RTP task are spawned.
CallNew ==
    /\ dialog = "spawning"
    /\ dialog' = "call"
    /\ app_result' = "ok"
    /\ h_pc' = "check"
    /\ rtp' = "starting"
    /\ call_held' = TRUE
    /\ UNCHANGED <<unitVars, regVars, sockVars>>
    /\ UNCHANGED <<dir, app_op, drained_cancel, out_cseq, out_response, remote_sdp,
                   cseq, dialog_cseq>>
    /\ UNCHANGED <<h_abort, is_terminated, ctl_in, ctl_out, app_ctl, hangups,
                   handled_terminated, bye_responses, late_results>>

(***************************************************************************)
(* OutgoingCall: SipManager::call, into_call_response                      *)
(***************************************************************************)
\* Mutant: the INVITE is built without the Authorization header.
generate_invite_no_auth(n, x) == Req("INVITE", n, "")

\* OutgoingCall::generate_invite (x = "auth" after add_auth_header)
generate_invite(n, x) == Req("INVITE", n, x)

\* Mutant: the CANCEL takes the CSeq number of the first INVITE.
generate_cancel_initial_cseq == Req("CANCEL", InitialCSeq, "")

\* OutgoingCall::generate_cancel: get_base_headers (the Call-ID, the Via and
\* the From tag the INVITE has) with CSeq (self.cseq, CANCEL).
generate_cancel == Req("CANCEL", out_cseq, "")

\* Mutant: the ACK takes the CSeq number of the OutgoingCall.
generate_ack_own_cseq(response) == Req("ACK", out_cseq, "")

\* get_outgoing_call_response: the ACK, CSeq (response's seq, ACK).
generate_ack(response) == Req("ACK", response.cseq, "")

\* Mutant: the retry keeps the CSeq number of the INVITE before it.
retry_cseq_unchanged == out_cseq

\* handle_invite_response_unauthorized: self.cseq = self.cseq + 1
retry_cseq == out_cseq + 1

\* Mutant: 180 Ringing is taken for a final response.
final_status_codes_with_ringing == {180, 486, 600, 503, 480, 200}

\* handle_response: the status codes stored in self.response (BusyHere,
\* BusyEverywhere, ServiceUnavailable, TemporarilyUnavailable, OK).
final_status_codes == {486, 600, 503, 480, 200}

\* SipManager::call -> InnerSipManager::call -> OutgoingCall::try_from:
\* a routing entry is made, then the INVITE is sent.
ManagerCall ==
    /\ inner = TRUE
    /\ dir = "none"
    /\ sock_pc = "select"
    /\ CallId \notin call_channels
    /\ dir' = "out"
    /\ app_op' = "answer"
    /\ call_channels' = call_channels \cup {CallId}
    /\ out_cseq' = InitialCSeq
    /\ SendOutbound(generate_invite(InitialCSeq, ""))
    /\ dialog' = IF OutboundOpen THEN "waiting" ELSE "failed"
    /\ app_result' = IF OutboundOpen THEN "none" ELSE "err"
    /\ call_rx' = OutboundOpen
    /\ UNCHANGED <<regVars, unitVars>>
    /\ UNCHANGED <<sock_pc, call_queue, incoming_queue, peer_msgs, peer_cseq>>
    /\ UNCHANGED <<drained_cancel, out_response, remote_sdp, cseq, dialog_cseq>>
    /\ UNCHANGED callVars

\* The dialog's inbound channel is closed: every Sender is gone.
CallChannelClosed == CallId \notin call_channels

\* into_call_response fails: the OutgoingCall is consumed and dropped, and
\* its CallConnection with what the channel still holds.
OutFail ==
    /\ dialog' = "failed"
    /\ app_result' = "err"
    /\ call_rx' = FALSE
    /\ call_queue' = <<>>

\* One turn of the loop of peek_call_response (called by
\* into_call_response): recv() on the dialog channel, then handle_response.
OutRecv ==
    /\ dialog = "waiting"
    /\ out_response = NoMsg
    /\ UNCHANGED <<regVars, unitVars>>
    /\ UNCHANGED <<sock_pc, call_channels, incoming_queue, peer_msgs, peer_cseq>>
    /\ UNCHANGED <<dir, app_op, drained_cancel, remote_sdp, cseq, dialog_cseq>>
    /\ UNCHANGED callVars
    /\ IF call_queue = <<>>
       THEN \* recv() returned None
            /\ CallChannelClosed
            /\ OutFail
            /\ UNCHANGED <<message_channel, sent, out_cseq, out_response>>
       ELSE LET msg == Head(call_queue)
                Continue == /\ call_queue' = Tail(call_queue)
                            /\ UNCHANGED <<dialog, app_result, call_rx>>
            IN IF msg.t = "req"
               THEN Continue /\ UNCHANGED <<message_channel, sent, out_cseq, out_response>>
               ELSE IF msg.m # "INVITE"
               THEN OutFail /\ UNCHANGED <<message_channel, sent, out_cseq, out_response>>
               ELSE IF msg.code \in final_status_codes
               THEN /\ out_response' = msg
                    /\ Continue
                    /\ UNCHANGED <<message_channel, sent, out_cseq>>
               ELSE IF msg.code = 401
               THEN \* handle_invite_response_unauthorized
                    IF msg.x # "chal"
                    THEN OutFail /\ UNCHANGED <<message_channel, sent, out_cseq, out_response>>
                    ELSE /\ out_cseq' = retry_cseq
                         /\ SendOutbound(generate_invite(retry_cseq, "auth"))
                         /\ IF OutboundOpen THEN Continue ELSE OutFail
                         /\ UNCHANGED out_response
               ELSE \* Trying, Ringing, SessionProgress, anything else
                    Continue /\ UNCHANGED <<message_channel, sent, out_cseq, out_response>>

\* OutgoingCall::get_outgoing_call_response on the final response.
OutResolve ==
    /\ dialog = "waiting"
    /\ out_response # NoMsg
    /\ out_response' = NoMsg
    /\ UNCHANGED <<regVars, unitVars>>
    /\ UNCHANGED <<sock_pc, call_channels, incoming_queue, peer_msgs, peer_cseq>>
    /\ UNCHANGED <<dir, app_op, drained_cancel, out_cseq>>
    /\ UNCHANGED callVars
    /\ IF out_response.code # 200
       THEN /\ dialog' = "rejected"
            /\ app_result' = "rejected"
            /\ call_rx' = FALSE
            /\ call_queue' = <<>>
            /\ UNCHANGED <<message_channel, sent, remote_sdp, cseq, dialog_cseq>>
       ELSE IF out_response.x \in {"notag", "badsdp"}
       THEN \* SessionParameters::from_response fails
            /\ OutFail
            /\ UNCHANGED <<message_channel, sent, remote_sdp, cseq, dialog_cseq>>
       ELSE \* from_response, then the ACK with the CSeq number of the 200 OK
            /\ cseq' = out_response.cseq
            /\ remote_sdp' = out_response.x
            /\ SendOutbound(generate_ack(out_response))
            /\ IF OutboundOpen
               THEN /\ dialog' = "spawning"
                    /\ dialog_cseq' = out_response.cseq
                    /\ UNCHANGED <<app_result, call_rx, call_queue>>
               ELSE OutFail /\ UNCHANGED dialog_cseq

\* OutgoingCall::cancel: the CANCEL is sent and the OutgoingCall, which
\* the call consumes, is dropped; no response is waited for.
OutCancel ==
    /\ dialog = "waiting"
    /\ app_op' = "cancel"
    /\ SendOutbound(generate_cancel)
    /\ app_result' = IF OutboundOpen THEN "ok" ELSE "err"
    /\ dialog' = IF OutboundOpen THEN "cancelled" ELSE "failed"
    /\ call_rx' = FALSE
    /\ call_queue' = <<>>
    /\ out_response' = NoMsg
    /\ UNCHANGED <<regVars, unitVars>>
    /\ UNCHANGED <<sock_pc, call_channels, incoming_queue, peer_msgs, peer_cseq>>
    /\ UNCHANGED <<dir, drained_cancel, out_cseq, remote_sdp, cseq, dialog_cseq>>
    /\ UNCHANGED callVars

(***************************************************************************)
(* The Call: call_task / CallHandler, rtp_task, and the application's API  *)
(***************************************************************************)
\* BidirectionalChannel::one_sided on the handler's end of the control
\* channel: the Call, which holds the other end, was dropped.
one_sided == ~call_held

\* CallHandler::is_running
handler_is_running == ~one_sided /\ ~is_terminated

\* The handler's unbounded send to the application (its result is ignored).
Notify(control) ==
    ctl_out' = IF call_held THEN Append(ctl_out, control) ELSE ctl_out

\* Mutant: the CSeq number is advanced by two.
get_next_cseq_plus_two == cseq + 2

\* SessionParameters::get_next_cseq (the value it stores and returns)
get_next_cseq == cseq + 1

\* Mutant: the handler is not marked terminated after the BYE was sent.
hangup_not_terminated ==
    /\ cseq' = get_next_cseq
    /\ SendOutbound(Req("BYE", get_next_cseq, ""))
    /\ IF OutboundOpen THEN Notify("Hangup") ELSE UNCHANGED ctl_out
    /\ UNCHANGED is_terminated

\* CallHandler::hangup: the BYE takes the next CSeq number; after a
\* successful send notify_call_hangup marks the handler terminated.
hangup ==
    /\ cseq' = get_next_cseq
    /\ SendOutbound(Req("BYE", get_next_cseq, ""))
    /\ IF OutboundOpen
       THEN Notify("Hangup") /\ is_terminated' = TRUE
       ELSE UNCHANGED <<ctl_out, is_terminated>>

\* Mutant: the BYE ends the call only when its answer could be sent.
handle_sip_request_send_first(req) ==
    IF req.m = "BYE"
    THEN /\ SendOutbound(generate_response(req, 200, ""))
         /\ IF OutboundOpen
            THEN Notify("Hangup") /\ is_terminated' = TRUE
            ELSE UNCHANGED <<ctl_out, is_terminated>>
    ELSE UNCHANGED <<message_channel, sent, ctl_out, is_terminated>>

\* CallHandler::handle_sip_request: a BYE is answered 200 OK and ends the
\* call whether or not the answer could be sent; any other request is ignored.
handle_sip_request(req) ==
    IF req.m = "BYE"
    THEN /\ SendOutbound(generate_response(req, 200, ""))
         /\ Notify("Hangup")
         /\ is_terminated' = TRUE
    ELSE UNCHANGED <<message_channel, sent, ctl_out, is_terminated>>

\* Mutant: Finished is sent twice when the handler is dropped.
drop_call_handler_twice ==
    ctl_out' = IF call_held THEN ctl_out \o <<"Finished", "Finished">> ELSE ctl_out

\* Drop for CallHandler: Finished is sent, best effort.
drop_call_handler == Notify("Finished")

\* call_task: the loop condition `while call_handler.is_running()`; when it
\* is false the CallHandler goes out of scope and Drop::drop runs.
HandlerCheck ==
    /\ h_pc = "check"
    /\ IF handler_is_running
       THEN h_pc' = "next" /\ UNCHANGED ctl_out
       ELSE h_pc' = "finished" /\ drop_call_handler
    /\ UNCHANGED <<unitVars, regVars, sockVars, dlgVars>>
    /\ UNCHANGED <<h_abort, is_terminated, ctl_in, app_ctl, call_held, hangups, rtp,
                   handled_terminated, bye_responses, late_results>>

\* handle_next: the test of one_sided() before the select.
HandlerNext ==
    /\ h_pc = "next"
    /\ IF one_sided
       THEN /\ hangup
            /\ h_pc' = "check"
       ELSE /\ h_pc' = "select"
            /\ UNCHANGED <<message_channel, sent, cseq, ctl_out, is_terminated>>
    /\ UNCHANGED <<regVars, unitVars>>
    /\ UNCHANGED <<sock_pc, call_channels, call_queue, call_rx, incoming_queue,
                   peer_msgs, peer_cseq>>
    /\ UNCHANGED <<dir, dialog, app_op, app_result, drained_cancel, out_cseq,
                   out_response, remote_sdp, dialog_cseq>>
    /\ UNCHANGED <<h_abort, ctl_in, app_ctl, call_held, hangups, rtp,
                   handled_terminated, bye_responses, late_results>>

\* handle_next, select: a CallControl arrived from the application.
HandlerCtl ==
    /\ h_pc = "select"
    /\ ~h_abort
    /\ ctl_in # <<>>
    /\ ctl_in' = Tail(ctl_in)
    /\ handled_terminated' = (handled_terminated \/ is_terminated)
    /\ IF Head(ctl_in) = "Hangup"
       THEN hangup
       ELSE UNCHANGED <<message_channel, sent, cseq, ctl_out, is_terminated>>
    /\ h_pc' = "check"
    /\ UNCHANGED <<regVars, unitVars>>
    /\ UNCHANGED <<sock_pc, call_channels, call_queue, call_rx, incoming_queue,
                   peer_msgs, peer_cseq>>
    /\ UNCHANGED <<dir, dialog, app_op, app_result, drained_cancel, out_cseq,
                   out_response, remote_sdp, dialog_cseq>>
    /\ UNCHANGED <<h_abort, app_ctl, call_held, hangups, rtp, bye_responses,
                   late_results>>

\* handle_next, select: a SIP message arrived on the dialog channel.
\* handle_sip_response ignores every response.
HandlerSip ==
    /\ h_pc = "select"
    /\ ~h_abort
    /\ call_queue # <<>>
    /\ call_queue' = Tail(call_queue)
    /\ handled_terminated' = (handled_terminated \/ is_terminated)
    /\ IF Head(call_queue).t = "req"
       THEN handle_sip_request(Head(call_queue))
       ELSE UNCHANGED <<message_channel, sent, ctl_out, is_terminated>>
    /\ h_pc' = "check"
    /\ UNCHANGED <<regVars, unitVars>>
    /\ UNCHANGED <<sock_pc, call_channels, call_rx, incoming_queue,
                   peer_msgs, peer_cseq>>
    /\ UNCHANGED dlgVars
    /\ UNCHANGED <<h_abort, ctl_in, app_ctl, call_held, hangups, rtp, bye_responses,
                   late_results>>

\* handle_next, select: connection.recv() returned None (the dialog channel
\* is closed and empty); `if let Some(message)` does nothing.
HandlerSipClosed ==
    /\ h_pc = "select"
    /\ ~h_abort
    /\ call_queue = <<>>
    /\ CallChannelClosed
    /\ h_pc' = "check"
    /\ UNCHANGED <<unitVars, regVars, sockVars, dlgVars>>
    /\ UNCHANGED <<h_abort, is_terminated, ctl_in, ctl_out, app_ctl, call_held,
                   hangups, rtp, handled_terminated, bye_responses, late_results>>

\* The end of call_task: after Drop::drop the fields of the CallHandler are
\* dropped, the control Receiver and the CallConnection among them.
HandlerDropFields ==
    /\ h_pc = "finished"
    /\ h_pc' = "gone"
    /\ call_rx' = FALSE
    /\ call_queue' = <<>>
    /\ UNCHANGED <<regVars, unitVars>>
    /\ UNCHANGED <<sock_pc, message_channel, sent, call_channels,
                   incoming_queue, peer_msgs, peer_cseq>>
    /\ UNCHANGED dlgVars
    /\ UNCHANGED <<h_abort, is_terminated, ctl_in, ctl_out, app_ctl, call_held,
                   hangups, rtp, handled_terminated, bye_responses, late_results>>

\* The aborted signaling task is cancelled at an await: its future is
\* dropped, Finished finds no Receiver, the CallConnection is dropped.
HandlerAbort ==
    /\ h_abort
    /\ h_pc \in {"next", "select"}
    /\ h_pc' = "gone"
    /\ call_rx' = FALSE
    /\ call_queue' = <<>>
    /\ UNCHANGED <<regVars, unitVars>>
    /\ UNCHANGED <<sock_pc, message_channel, sent, call_channels,
                   incoming_queue, peer_msgs, peer_cseq>>
    /\ UNCHANGED dlgVars
    /\ UNCHANGED <<h_abort, is_terminated, ctl_in, ctl_out, app_ctl, call_held,
                   hangups, rtp, handled_terminated, bye_responses, late_results>>

\* rtp_task: RTPSession::new; on Ok the task loops for ever over
\* handle_next, on Err (an SDP it cannot use, the UDP bind) it returns.
RtpInit(bind_ok) ==
    /\ rtp = "starting"
    /\ rtp' = IF remote_sdp = "ok" /\ bind_ok THEN "running" ELSE "failed"
    /\ UNCHANGED <<unitVars, regVars, sockVars, dlgVars>>
    /\ UNCHANGED <<h_pc, h_abort, is_terminated, ctl_in, ctl_out, app_ctl, call_held,
                   hangups, handled_terminated, bye_responses, late_results>>

\* Finished has been yielded by Call::recv.
FinishedYielded == \E i \in 1..Len(app_ctl) : app_ctl[i] = "Finished"

\* The Receiver of the media channel exists: it is owned by the RTP task.
MediaOpen == rtp \in {"starting", "running"}

\* The handler's Receiver of the control channel exists.
ControlOpen == h_pc \in {"check", "next", "select", "finished"}

\* Call::recv
AppRecvCtl ==
    /\ call_held
    /\ ctl_out # <<>>
    /\ ctl_out' = Tail(ctl_out)
    /\ app_ctl' = Append(app_ctl, Head(ctl_out))
    /\ UNCHANGED <<unitVars, regVars, sockVars, dlgVars>>
    /\ UNCHANGED <<h_pc, h_abort, is_terminated, ctl_in, call_held, hangups, rtp,
                   handled_terminated, bye_responses, late_results>>

\* Call::hangup: an unbounded send of CallControl::Hangup to the handler.
AppHangup ==
    /\ call_held
    /\ hangups < MaxHangups
    /\ hangups' = IF ControlOpen THEN hangups + 1 ELSE hangups
    /\ ctl_in' = IF ControlOpen THEN Append(ctl_in, "Hangup") ELSE ctl_in
    /\ late_results' = IF FinishedYielded /\ ControlOpen
                       THEN late_results \cup {"hangup"}
                       ELSE late_results
    /\ UNCHANGED <<unitVars, regVars, sockVars, dlgVars>>
    /\ UNCHANGED <<h_pc, h_abort, is_terminated, ctl_out, app_ctl, call_held, rtp,
                   handled_terminated, bye_responses>>

\* Call::send_audio: an unbounded send of Media::Audio to the RTP task.
AppSendAudio ==
    /\ call_held
    /\ late_results' = IF FinishedYielded /\ MediaOpen
                       THEN late_results \cup {"send_audio"}
                       ELSE late_results
    /\ UNCHANGED <<unitVars, regVars, sockVars, dlgVars>>
    /\ UNCHANGED <<h_pc, h_abort, is_terminated, ctl_in, ctl_out, app_ctl, call_held,
                   hangups, rtp, handled_terminated, bye_responses>>

\* Drop for Call: both tasks are aborted unless finished, then the Call's
\* ends of the two channels are dropped.  What the application observed
\* through the Call (the history variables) ends with it.
DropCall ==
    /\ call_held
    /\ call_held' = FALSE
    /\ dialog' = "dropped"
    /\ h_abort' = (h_pc \in {"check", "next", "select"})
    /\ rtp' = IF rtp \in {"starting", "running"} THEN "aborted" ELSE rtp
    /\ ctl_out' = <<>>
    /\ app_ctl' = <<>>
    /\ hangups' = 0
    /\ late_results' = {}
    /\ UNCHANGED <<unitVars, regVars, sockVars>>
    /\ UNCHANGED <<dir, app_op, app_result, drained_cancel, out_cseq, out_response,
                   remote_sdp, cseq, dialog_cseq>>
    /\ UNCHANGED <<h_pc, is_terminated, ctl_in, handled_terminated, bye_responses>>

(***************************************************************************)
(* One dialog on a registered connection                                   *)
(***************************************************************************)
\* The state after a start() that returned Ok on the first REGISTER.
Init ==
    /\ inner = TRUE
    /\ starts = 1
    /\ start_result = "ok"
    /\ reg_pc = "idle"
    /\ registers = <<generate_register_request>>
    /\ reg_in = <<Res("REGISTER", 200, RegisterCSeq, "")>>
    /\ handle = "running"
    /\ stream_eof = FALSE
    /\ UnitIdle
    /\ NoDialog

Next ==
    \/ \E msg \in PeerMessages, write_ok \in BOOLEAN : SockRecv(msg, write_ok)
    \/ SockRing
    \/ SockEnqueue
    \/ \E write_ok \in BOOLEAN : SockWrite(write_ok)
    \/ SockReadError
    \/ ManagerStop
    \/ AppRecvIncoming
    \/ Accept
    \/ Reject
    \/ CallNew
    \/ ManagerCall
    \/ OutRecv
    \/ OutResolve
    \/ OutCancel
    \/ HandlerCheck
    \/ HandlerNext
    \/ HandlerCtl
    \/ HandlerSip
    \/ HandlerSipClosed
    \/ HandlerDropFields
    \/ HandlerAbort
    \/ \E bind_ok \in BOOLEAN : RtpInit(bind_ok)
    \/ AppRecvCtl
    \/ AppHangup
    \/ AppSendAudio
    \/ DropCall

Spec == Init /\ [][Next]_vars

(***************************************************************************)
(* One OutgoingCall on a registered connection, with every kind of answer  *)
(***************************************************************************)
\* Status codes of the responses to the INVITE the server may send while
\* the OutgoingCall waits: Trying, Ringing, SessionProgress, NotFound (a
\* status handle_response has no arm for), the four rejections, and, with
\* their variants, Unauthorized and OK.
OutStatusCodes == {100, 180, 183, 404, 486, 600, 480, 503}

\* What the server may send to the OutgoingCall: responses to an INVITE sent
\* so far, a response whose CSeq names another method, and requests inside
\* the dialog (BYE, CANCEL) or outside of it (OPTIONS).
OutPeerMessages ==
    {Res("INVITE", c, n, "") : c \in OutStatusCodes, n \in {out_cseq}}
    \cup {Res("INVITE", 401, n, x) : n \in {out_cseq}, x \in {"chal", "none"}}
    \cup {Res("INVITE", 200, n, x) : n \in InitialCSeq..out_cseq,
                                     x \in {"ok", "nocodec", "notag", "badsdp"}}
    \cup {Res("REGISTER", 200, RegisterCSeq, "")}
    \cup {Req("BYE", n, "") : n \in RemoteCSeqs}
    \cup {Req("CANCEL", n, "") : n \in RemoteCSeqs}
    \cup {Req("OPTIONS", 1, "")}

OutNext ==
    \/ ManagerCall
    \/ \E msg \in OutPeerMessages, write_ok \in BOOLEAN :
           dir = "out" /\ SockRecv(msg, write_ok)
    \/ \E write_ok \in BOOLEAN : SockWrite(write_ok)
    \/ SockReadError
    \/ ManagerStop
    \/ OutRecv
    \/ OutResolve
    \/ OutCancel
    \/ CallNew

OutSpec == Init /\ [][OutNext]_vars

(***************************************************************************)
(* C1 - the registration handshake                                         *)
(***************************************************************************)
StartFailed == start_result \in {"err", "panic"}

\* The handshake's frame, common to the claim and to its amended form: at
\* most two REGISTERs per start(), the first with CSeq 1 and no
\* Authorization, a second only with CSeq 2 and Authorization and only
\* after a first 401; success needs a 200 OK as the last message read; any
\* other first reply, any second reply but 200 OK, and a request, fail
\* start(); the run loop exists only after a successful start().
RegFrame ==
    /\ Len(registers) <= 2
    /\ Len(registers) >= 1 => registers[1] = Req("REGISTER", 1, "")
    /\ Len(registers) = 2 =>
          /\ registers[2] = Req("REGISTER", 2, "auth")
          /\ Len(reg_in) >= 1 /\ IsRes(reg_in[1], "REGISTER", 401)
    /\ (Len(reg_in) >= 1 /\ reg_in[1].t = "res" /\ reg_in[1].code = 200)
          => start_result = "ok"
    /\ start_result = "ok" =>
          /\ Len(reg_in) \in {1, 2}
          /\ reg_in[Len(reg_in)].t = "res" /\ reg_in[Len(reg_in)].code = 200
          /\ Len(reg_in) = 2 => reg_in[1].code = 401
          /\ Len(registers) = Len(reg_in)
    /\ (Len(reg_in) >= 1 /\ (reg_in[1].t # "res" \/ reg_in[1].code \notin {200, 401}))
          => StartFailed
    /\ (Len(reg_in) = 2 /\ (reg_in[2].t # "res" \/ reg_in[2].code # 200))
          => StartFailed
    /\ start_result \in {"pending", "err", "panic"} => ~is_running
    /\ handle = "running" => start_result = "ok"
    /\ starts = 1 /\ start_result # "ok" => handle = "none"

\* C1 as stated: the handshake's frame, and every 401 read first causes
\* exactly one more REGISTER (CSeq 2, with Authorization).
C1_Claim ==
    /\ RegFrame
    /\ (Len(reg_in) >= 1 /\ IsRes(reg_in[1], "REGISTER", 401))
          => (Len(registers) = 2 /\ registers[2] = Req("REGISTER", 2, "auth"))

\* C1 amended: a first 401 causes the second REGISTER exactly when it
\* carries a parsable WWW-Authenticate challenge; a 401 without one causes
\* no further REGISTER and start() does not succeed.
C1_RegistrationHandshake ==
    /\ RegFrame
    /\ (Len(reg_in) >= 1 /\ IsRes(reg_in[1], "REGISTER", 401) /\ reg_in[1].x = "chal")
          => (Len(registers) = 2 /\ registers[2] = Req("REGISTER", 2, "auth"))
    /\ (Len(reg_in) >= 1 /\ IsRes(reg_in[1], "REGISTER", 401) /\ reg_in[1].x # "chal")
          => (Len(registers) = 1 /\ StartFailed)

\* A start() that succeeded on the second REGISTER, after a 401.
C1_Witness ==
    /\ start_result = "ok"
    /\ Len(registers) = 2
    /\ Len(reg_in) = 2
    /\ is_running

(***************************************************************************)
(* Helpers for the properties of the dialog                                *)
(***************************************************************************)
Is180Invite(m) == IsRes(m, "INVITE", 180)
Is200Invite(m) == IsRes(m, "INVITE", 200)
Is200Cancel(m) == IsRes(m, "CANCEL", 200)
IsByeRequest(m) == IsReq(m, "BYE")
IsCancelRequest(m) == IsReq(m, "CANCEL")
IsFinished(c) == c = "Finished"

\* A CANCEL has been delivered to the dialog's inbound channel.
CancelPending == Count(call_queue, IsCancelRequest) > 0

\* The first CANCEL of the dialog's inbound channel.
FirstCancel == call_queue[FirstIndex(call_queue, IsCancelRequest)]

\* The step accept() takes up to its send; the step reject() is.
AcceptStep == dialog = "held" /\ app_op' = "accept"
RejectStep == dialog = "held" /\ app_op' = "reject"

\* No Call exists and none of its two tasks was spawned.
NoCallNoTasks == h_pc = "none" /\ rtp = "none" /\ ~call_held

\* What the application's control channel has carried so far.
ControlCarried == app_ctl \o ctl_out

(***************************************************************************)
(* C2 - accept() of a cancelled IncomingCall                               *)
(***************************************************************************)
\* C2 as stated: when a CANCEL is in the inbound channel as accept() drains
\* it, accept() hands a 200 OK for that CANCEL to the socket and returns
\* Cancelled; no 200 OK for the INVITE is sent and no task is spawned, then
\* or later.
C2_Claim ==
    [][ /\ (AcceptStep /\ CancelPending) =>
              /\ sent' = Append(sent, Res("CANCEL", 200, FirstCancel.cseq, ""))
              /\ app_result' = "cancelled"
              /\ NoCallNoTasks'
        /\ (app_op = "accept" /\ drained_cancel) =>
              UNCHANGED <<sent, h_pc, rtp, call_held>>
      ]_vars

\* C2 amended: accept() returns Cancelled when the 200 OK for the CANCEL
\* was accepted by the outbound channel, and an error when the channel is
\* closed (the socket task has ended); in both cases no 200 OK for the
\* INVITE is sent and no task is spawned, then or later.
C2_AcceptCancelled ==
    [][ /\ (AcceptStep /\ CancelPending) =>
              /\ drained_cancel'
              /\ IF OutboundOpen
                 THEN /\ sent' = Append(sent, Res("CANCEL", 200, FirstCancel.cseq, ""))
                      /\ app_result' = "cancelled"
                 ELSE /\ sent' = sent
                      /\ app_result' = "err"
              /\ NoCallNoTasks'
        /\ (app_op = "accept" /\ drained_cancel) =>
              UNCHANGED <<sent, h_pc, rtp, call_held>>
      ]_vars

\* accept() found the CANCEL behind another request and returned Cancelled.
C2_Witness ==
    /\ app_op = "accept"
    /\ app_result = "cancelled"
    /\ Count(sent, Is200Cancel) = 1
    /\ Count(sent, Is200Invite) = 0
    /\ peer_msgs = 3
    /\ NoCallNoTasks

(***************************************************************************)
(* C3 - exactly one Finished                                               *)
(***************************************************************************)
\* C3: while the application holds the Call, its control channel never
\* carries Finished twice, carries it only after a BYE ended the dialog
\* (received from the peer or sent for a local hangup), and carries it once
\* when the signaling task has ended after such a BYE.
C3_ExactlyOneFinished ==
    call_held =>
        /\ Count(ControlCarried, IsFinished) <= 1
        /\ Count(ControlCarried, IsFinished) = 1 => is_terminated
        /\ (is_terminated /\ h_pc \in {"finished", "gone"}) =>
              Count(ControlCarried, IsFinished) = 1

\* A local hangup was queued, the peer's BYE was handled first, and the
\* application has been yielded the one Finished.
C3_Witness ==
    /\ call_held
    /\ FinishedYielded
    /\ hangups > 0
    /\ Count(sent, Is200Cancel) = 0
    /\ \E i \in 1..Len(sent) : IsRes(sent[i], "BYE", 200)
    /\ Count(ControlCarried, IsFinished) = 1

(***************************************************************************)
(* C4 - the end of the transport ends the call                             *)
(***************************************************************************)
\* The running CallHandler's connection.recv() returns None: the dialog
\* channel is closed (the socket task has ended and the manager was
\* stopped) and empty.
ObservesDialogClosed ==
    /\ h_pc = "select" /\ h_pc' = "check"
    /\ call_queue = <<>> /\ CallChannelClosed
    /\ ctl_in' = ctl_in

\* C4: a CallHandler that observes its dialog channel closing terminates
\* (its loop ends, so that Finished is sent to the application).
C4_Claim == [][ObservesDialogClosed => ~handler_is_running']_vars

(***************************************************************************)
(* C5 - send_audio and hangup after Finished                               *)
(***************************************************************************)
\* C5: once Call::recv has yielded Finished, no call to Call::send_audio
\* and no call to Call::hangup returns Ok.
C5_Claim == FinishedYielded => late_results = {}

(***************************************************************************)
(* C6 - the BYE of a local hangup                                          *)
(***************************************************************************)
\* The running CallHandler takes a Hangup control out of its channel.
TakesHangup ==
    /\ h_pc = "select" /\ h_pc' = "check"
    /\ ctl_in # <<>> /\ ctl_in' = Tail(ctl_in)

LocalByeSent == Count(sent, IsByeRequest) > 0

\* After a local hangup the control channel carries Hangup and then
\* Finished, each once.
HangupThenFinished ==
    LocalByeSent =>
        /\ ControlCarried \in {<<"Hangup">>, <<"Hangup", "Finished">>}
        /\ (call_held /\ h_pc \in {"finished", "gone"}) =>
              ControlCarried = <<"Hangup", "Finished">>

Ok200Sdp == Res("INVITE", 200, peer_cseq, "sdp")

\* C8: an IncomingCall is on the incoming queue (or further) only after the
\* 180 Ringing for its INVITE was handed to the outbound channel; accept()
\* without a pending CANCEL hands over exactly one 200 OK with the local
\* SDP, behind the 180; the Call and its tasks exist only after that; when
\* the send of the 200 OK fails accept() returns an error and neither a
\* Call nor a task exists.
C8_RingingThenOkThenCall ==
    dir = "in" =>
        /\ dialog # "none" =>
              /\ Len(sent) >= 1
              /\ sent[1] = Res("INVITE", 180, peer_cseq, "")
              /\ Count(sent, Is180Invite) = 1
        /\ Count(sent, Is200Invite) <= 1
        /\ (app_op = "accept" /\ ~drained_cancel /\ app_result # "err") =>
              /\ Len(sent) >= 2
              /\ sent[2] = Ok200Sdp
              /\ Count(sent, Is200Invite) = 1
        /\ (h_pc # "none" \/ rtp # "none" \/ call_held) =>
              (Len(sent) >= 2 /\ sent[2] = Ok200Sdp)
        /\ (app_op = "accept" /\ app_result = "err") =>
              /\ NoCallNoTasks
              /\ Count(sent, Is200Invite) = 0

\* An accepted incoming call: 180, then 200 OK with SDP, then the tasks.
C8_Witness ==
    /\ dir = "in"
    /\ app_op = "accept"
    /\ app_result = "ok"
    /\ SubSeq(sent, 1, 2) = <<Res("INVITE", 180, peer_cseq, ""), Ok200Sdp>>
    /\ h_pc = "select"
    /\ rtp = "running"

(***************************************************************************)
(* C9 - a late CANCEL                                                      *)
(***************************************************************************)
\* The running CallHandler of an accepted incoming call takes a CANCEL out
\* of the dialog channel while the outbound channel is open.
TakesLateCancel ==
    /\ dir = "in"
    /\ h_pc = "select" /\ h_pc' = "check"
    /\ call_queue # <<>> /\ call_queue' = Tail(call_queue)
    /\ IsCancelRequest(Head(call_queue))
    /\ OutboundOpen

\* C9: the CANCEL that arrives after accept() was dispatched is answered
\* with a 200 OK to the CANCEL.
C9_Claim ==
    [][TakesLateCancel =>
          sent' = Append(sent, Res("CANCEL", 200, Head(call_queue).cseq, ""))]_vars

(***************************************************************************)
(* C10 - reject()                                                          *)
(***************************************************************************)
\* C10: reject() hands exactly one message to the outbound channel: the
\* 200 OK to the first pending CANCEL if there is one, else the 600 Busy
\* Everywhere for the INVITE; it returns Ok when the channel took the
\* message and an error when it did not; neither then nor later is there a
\* Call, a task or another message of the dialog.
C10_RejectSendsOne ==
    [][ /\ RejectStep =>
              /\ IF OutboundOpen
                 THEN /\ sent' = Append(sent,
                                   IF CancelPending
                                   THEN Res("CANCEL", 200, FirstCancel.cseq, "")
                                   ELSE Res("INVITE", 600, peer_cseq, ""))
                      /\ app_result' = "ok"
                 ELSE /\ sent' = sent
                      /\ app_result' = "err"
              /\ NoCallNoTasks'
        /\ app_op = "reject" => UNCHANGED <<sent, h_pc, rtp, call_held>>
      ]_vars

\* reject() answered the INVITE with 600 and returned Ok.
C10_Witness ==
    /\ app_op = "reject"
    /\ app_result = "ok"
    /\ ~drained_cancel
    /\ sent = <<Res("INVITE", 180, peer_cseq, ""), Res("INVITE", 600, peer_cseq, "")>>
    /\ NoCallNoTasks

\* reject() of a cancelled call answered the CANCEL and returned Ok.
C10_WitnessCancelled ==
    /\ app_op = "reject"
    /\ app_result = "ok"
    /\ drained_cancel
    /\ sent = <<Res("INVITE", 180, peer_cseq, ""), Res("CANCEL", 200, peer_cseq, "")>>

(***************************************************************************)
(* SipContext: the allocator of the local RTP ports                        *)
(***************************************************************************)
\* The values of rtp_port_start and rtp_port_end tried: the example range,
\* odd bounds, and bounds next to the largest u16.
PortChoices == {20480, 20481, 20483, 20486, 20490, 65531, 65534, 65535}

\* The number of values of a u16.
U16 == 65536

\* SipContext::from_config returned Ok (rtp_port_start <= rtp_port_end).
PortInit ==
    /\ rtp_port_start \in PortChoices
    /\ rtp_port_end \in PortChoices
    /\ rtp_port_start <= rtp_port_end
    /\ next_udp_port = rtp_port_start
    /\ ports = <<>>
    /\ wrap_at = 0
    /\ ctx_panic = FALSE
    /\ SipIdle
    /\ HdrIdle
    /\ DecIdle
    /\ TevIdle
    /\ PlayIdle
    /\ RouteIdle
    /\ LockIdle

\* SipContext::get_next_udp_port, called under the lock of the context by
\* InnerSipManager::call (OutgoingCall::try_from) and for an incoming INVITE
\* (SessionParameters::from_request).  `self.next_udp_port += 2` on a u16:
\* beyond 65535 it panics when overflow checks are compiled in, and wraps
\* around when they are not.
get_next_udp_port(overflow_checks) ==
    /\ ~ctx_panic
    /\ Len(ports) < MaxPorts
    /\ IF next_udp_port + 2 >= U16 /\ overflow_checks
       THEN /\ ctx_panic' = TRUE
            /\ UNCHANGED <<next_udp_port, ports, wrap_at>>
       ELSE LET port == next_udp_port
                added == (next_udp_port + 2) % U16
            IN /\ next_udp_port' = IF added > rtp_port_end THEN rtp_port_start ELSE added
               /\ wrap_at' = IF wrap_at = 0 /\ added > rtp_port_end
                             THEN Len(ports) + 1 ELSE wrap_at
               /\ ports' = Append(ports, port)
               /\ UNCHANGED ctx_panic
    /\ UNCHANGED <<rtp_port_start, rtp_port_end>>
    /\ UNCHANGED <<sipVars, hdrVars, decVars, tevVars, playVars, routeVars, lockVars>>

PortNext == \E overflow_checks \in BOOLEAN : get_next_udp_port(overflow_checks)

PortSpec == PortInit /\ [][PortNext]_vars

(***************************************************************************)
(* The headers of the replies: SessionParameters::get_headers_response and *)
(* generate_options_response                                               *)
(***************************************************************************)
\* Config::get_own_uri (username@own_addr) and the tag from_request makes.
OwnUri == "sip:bob@own"
LocalTag == "tt"

\* An address header: display name, URI, tag ("": none).
Addr(name, uri, tag) == [name |-> name, uri |-> uri, tag |-> tag]

\* The requests the server may send: the Via of the hop before, a From
\* with or without a display name, a To that is the address of record at the
\* server or the contact address, with the local tag or without one.
HdrRequests(methods) ==
    [method : methods, status : {0}, via : {"v1", "v2"},
     from : {Addr(n, "sip:alice@server", t) : n \in {"", "Alice"}, t \in {"ft", "fu"}},
     to : {Addr("", u, t) : u \in {OwnUri, "sip:bob@server"}, t \in {"", LocalTag}},
     call_id : {CallId}, cseq : RemoteCSeqs]

\* SessionParameters::from_request: the remote URI and tag are those of the
\* From header, the local URI is the own URI, the local tag is made up.
from_request(request) ==
    [call_id |-> request.call_id,
     remote_uri |-> request.from.uri, remote_tag |-> request.from.tag,
     local_uri |-> OwnUri, local_tag |-> LocalTag]

\* SessionParameters::get_headers_response: the Via and the CSeq of the
\* request; the Call-ID of the session; a From made of the remote URI and
\* tag of the session; a To made of the local URI and tag of the session.
get_headers_response(session, request, status_code) ==
    [method |-> request.method, status |-> status_code,
     via |-> request.via,
     from |-> Addr("", session.remote_uri, session.remote_tag),
     to |-> Addr("", session.local_uri, session.local_tag),
     call_id |-> session.call_id,
     cseq |-> request.cseq]

\* generate_options_response: Via, To, From, Call-ID and CSeq are those of
\* the request.
generate_options_response(request) == [request EXCEPT !.status = 200]

\* handle_sip_request, INVITE: try_from_request builds the session from the
\* INVITE and send_ringing replies 180.
HdrInvite(request) ==
    /\ hdr_session = NoSession
    /\ request.to.tag = ""
    /\ hdr_session' = from_request(request)
    /\ hdr_request' = request
    /\ hdr_reply' = get_headers_response(from_request(request), request, 180)
    /\ UNCHANGED <<sipVars, ctxVars, decVars, tevVars, playVars, routeVars, lockVars>>

\* IncomingCall::accept / reject: 200 or 600 to the INVITE kept in the
\* IncomingCall.
HdrAnswer(status_code) ==
    /\ hdr_session # NoSession
    /\ hdr_request.method = "INVITE"
    /\ hdr_reply.status = 180
    /\ hdr_reply' = get_headers_response(hdr_session, hdr_request, status_code)
    /\ UNCHANGED <<hdr_session, hdr_request>>
    /\ UNCHANGED <<sipVars, ctxVars, decVars, tevVars, playVars, routeVars, lockVars>>

\* accept / reject on a pending CANCEL, CallHandler::handle_bye_request:
\* 200 to a request of the dialog.
HdrInDialog(request) ==
    /\ hdr_session # NoSession
    /\ hdr_request.method = "INVITE"
    /\ request.from.tag = hdr_session.remote_tag
    /\ hdr_request' = request
    /\ hdr_reply' = get_headers_response(hdr_session, request, 200)
    /\ UNCHANGED hdr_session
    /\ UNCHANGED <<sipVars, ctxVars, decVars, tevVars, playVars, routeVars, lockVars>>

\* handle_sip_request, OPTIONS.
HdrOptions(request) ==
    /\ hdr_session = NoSession
    /\ hdr_request = NoHeaders
    /\ request.to.tag = ""
    /\ hdr_request' = request
    /\ hdr_reply' = generate_options_response(request)
    /\ UNCHANGED hdr_session
    /\ UNCHANGED <<sipVars, ctxVars, decVars, tevVars, playVars, routeVars, lockVars>>

HdrInit == SipIdle /\ CtxIdle /\ HdrIdle /\ DecIdle /\ TevIdle /\ PlayIdle /\ RouteIdle /\ LockIdle

HdrNext ==
    \/ \E request \in HdrRequests({"INVITE"}) : HdrInvite(request)
    \/ \E status_code \in {200, 600} : HdrAnswer(status_code)
    \/ \E request \in HdrRequests({"CANCEL", "BYE"}) : HdrInDialog(request)
    \/ \E request \in HdrRequests({"OPTIONS"}) : HdrOptions(request)

HdrSpec == HdrInit /\ [][HdrNext]_vars

(***************************************************************************)
(* The decoding of the TCP stream into SIP messages                        *)
(*                                                                         *)
(* Two pieces of code cut the byte stream into messages: the read branch   *)
(* of SipSocket::run with get_next_message, and SipMessageDecoder::decode. *)
(* dec_impl says which of the two reads the stream of a behaviour.         *)
(*                                                                         *)
(* A byte string is a sequence of runs [k, n, v]: n bytes of kind k.       *)
(*   "CR", "LF" : the bytes \r and \n                                      *)
(*   "h"        : the text of a start line and headers that rsip parses    *)
(*   "cl"       : the text of a Content-Length header of value v           *)
(*   "x"        : text that rsip does not parse                            *)
(*   "b"        : n bytes of a body                                        *)
(* The text kinds count as one byte each; only bodies have a length that   *)
(* the code looks at.                                                      *)
(***************************************************************************)
\* the array the socket task reads into
ReadBufferSize == 4096
\* the cap of SipMessageDecoder on Content-Length
MAX_CONTENT_LENGTH == 50000
\* the Content-Length of the bodies on the stream: a small one, and one over
\* the cap
SmallContentLength == 2
BigContentLength == 60000
\* messages and keep-alives on the stream of one behaviour
MaxUnits == 3

Seg(k, n, v) == [k |-> k, n |-> n, v |-> v]
CR == Seg("CR", 1, 0)
LF == Seg("LF", 1, 0)
CRLFCRLF == <<CR, LF, CR, LF>>

Smaller(a, b) == IF a <= b THEN a ELSE b

\* slice.len()
RECURSIVE BLen(_)
BLen(s) == IF s = <<>> THEN 0 ELSE Head(s).n + BLen(Tail(s))

\* the first n bytes of s: what split_to(n) and drain(..n) return
RECURSIVE Take(_, _)
Take(s, n) ==
    IF n = 0 \/ s = <<>> THEN <<>>
    ELSE IF Head(s).n <= n
         THEN <<Head(s)>> \o Take(Tail(s), n - Head(s).n)
         ELSE <<[Head(s) EXCEPT !.n = n]>>

\* s without its first n bytes: what split_to(n), advance(n) and drain(..n)
\* leave
RECURSIVE Drop(_, _)
Drop(s, n) ==
    IF n = 0 \/ s = <<>> THEN s
    ELSE IF Head(s).n <= n
         THEN Drop(Tail(s), n - Head(s).n)
         ELSE <<[Head(s) EXCEPT !.n = @ - n]>> \o Tail(s)

\* extend_from_slice / append: body bytes that meet are one run
Cat(a, b) ==
    IF a # <<>> /\ b # <<>> /\ a[Len(a)].k = "b" /\ b[1].k = "b"
    THEN SubSeq(a, 1, Len(a) - 1) \o <<Seg("b", a[Len(a)].n + b[1].n, 0)>> \o Tail(b)
    ELSE a \o b

\* windows(4) ... matches!(w, b"\r\n\r\n") at run i
WindowAt(s, i) == i + 3 <= Len(s) /\ SubSeq(s, i, i + 3) = CRLFCRLF

\* The index just after the first CRLFCRLF; 0 stands for None (an index is
\* at least 4).
get_next_packet_split(s) ==
    IF \E i \in 1..Len(s) : WindowAt(s, i)
    THEN LET i == CHOOSE i \in 1..Len(s) :
                      WindowAt(s, i) /\ \A j \in 1..(i - 1) : ~WindowAt(s, j)
         IN BLen(SubSeq(s, 1, i - 1)) + 4
    ELSE 0

\* A packet that is not cut out as a message.
is_keep_alive_never(index) == FALSE

\* index == 4 / packet.len() == 4: the packet is the CRLFCRLF alone
is_keep_alive(index) == index = 4

\* The header block of a packet (a packet ends with CRLFCRLF).
HeadOf(packet) == SubSeq(packet, 1, Len(packet) - 4)

\* SipMessage::try_from returns Ok
well_formed(packet) ==
    LET head == HeadOf(packet)
    IN /\ head # <<>>
       /\ head[1].k = "h"
       /\ \A i \in 2..Len(head) : head[i].k = "cl"

\* Content-Length of a header block: the first such header, 0 without one
ContentLengthOf(head) ==
    IF \E i \in 1..Len(head) : head[i].k = "cl"
    THEN head[CHOOSE i \in 1..Len(head) :
                  head[i].k = "cl" /\ \A j \in 1..(i - 1) : head[j].k # "cl"].v
    ELSE 0

\* SipMessage::try_from of a well-formed packet: the body is empty
try_from(packet) ==
    [head |-> HeadOf(packet), content_length |-> ContentLengthOf(HeadOf(packet)),
     body |-> <<>>, none |-> FALSE]

\* SipSocket::get_next_message on the buffer buf: the buffer it leaves, the
\* message it returns (NoPending: None), and "err" when it returns Err.
get_next_message(buf) ==
    LET index == get_next_packet_split(buf)
    IN IF index = 0
       THEN [buffer |-> buf, item |-> NoPending, result |-> "ok"]
       ELSE IF is_keep_alive(index)
       THEN [buffer |-> Drop(buf, index), item |-> NoPending, result |-> "ok"]
       ELSE IF ~well_formed(Take(buf, index))
       THEN [buffer |-> Drop(buf, index), item |-> NoPending, result |-> "err"]
       ELSE LET message == try_from(Take(buf, index))
                rest == Drop(buf, index)
                content_length == message.content_length
            IN IF content_length > 0 /\ BLen(rest) < content_length
               THEN [buffer |-> rest, item |-> NoPending, result |-> "err"]
               ELSE [buffer |-> Drop(rest, content_length),
                     item |-> [message EXCEPT !.body = Take(rest, content_length)],
                     result |-> "ok"]

\* SipMessageDecoder::decode with pending_message = pending on the bytes src:
\* the pending message and the bytes it leaves, the item it returns
\* (NoPending: None), and "panic" when the unwrap of try_from panics.
decode(pending, src) ==
    LET index == IF pending.none THEN get_next_packet_split(src) ELSE 0
    IN IF index # 0 /\ is_keep_alive(index)
       THEN [pending |-> pending, src |-> Drop(src, 4),
             item |-> NoPending, result |-> "ok"]
       ELSE IF index # 0 /\ ~well_formed(Take(src, index))
       THEN [pending |-> pending, src |-> Drop(src, index),
             item |-> NoPending, result |-> "panic"]
       ELSE LET message == IF index # 0 THEN try_from(Take(src, index)) ELSE pending
                rest == IF index # 0 THEN Drop(src, index) ELSE src
            IN IF message.none
               THEN [pending |-> message, src |-> rest,
                     item |-> NoPending, result |-> "ok"]
               ELSE LET content_length ==
                            Smaller(message.content_length, MAX_CONTENT_LENGTH)
                        fits == BLen(rest) >= content_length
                        body == IF fits
                                THEN Cat(message.body, Take(rest, content_length))
                                ELSE message.body
                        left == IF fits THEN Drop(rest, content_length) ELSE rest
                        filled == [message EXCEPT !.body = body]
                    IN IF BLen(body) = content_length
                       THEN [pending |-> NoPending, src |-> left,
                             item |-> filled, result |-> "ok"]
                       ELSE [pending |-> filled, src |-> left,
                             item |-> NoPending, result |-> "ok"]

\* What the server puts on the stream.
KeepAlive == CRLFCRLF
MsgNoBody == <<Seg("h", 1, 0)>> \o CRLFCRLF
MsgSmallBody ==
    <<Seg("h", 1, 0), Seg("cl", 1, SmallContentLength)>> \o CRLFCRLF
        \o <<Seg("b", SmallContentLength, 0)>>
MsgBigBody ==
    <<Seg("h", 1, 0), Seg("cl", 1, BigContentLength)>> \o CRLFCRLF
        \o <<Seg("b", BigContentLength, 0)>>
MsgMalformed == <<Seg("x", 1, 0)>> \o CRLFCRLF
Units == {KeepAlive, MsgNoBody, MsgSmallBody, MsgBigBody, MsgMalformed}

RECURSIVE StreamsOf(_)
StreamsOf(n) ==
    IF n = 0 THEN {<<>>}
    ELSE {u \o s : u \in Units, s \in StreamsOf(n - 1)}

Streams == UNION {StreamsOf(n) : n \in 1..MaxUnits}

\* The numbers of bytes one read can return: up to the end of a run of the
\* stream, and never more than the array read into.
ChunkSizes(w, cap) == {Smaller(BLen(SubSeq(w, 1, j)), cap) : j \in 1..Len(w)}

DecInit ==
    /\ dec_impl \in {"socket", "decoder"}
    /\ wire \in Streams
    /\ buffer = <<>>
    /\ pending_message = NoPending
    /\ frames = <<>>
    /\ discarded = 0
    /\ dec_err = "none"
    /\ SipIdle
    /\ CtxIdle
    /\ HdrIdle
    /\ TevIdle
    /\ PlayIdle
    /\ RouteIdle
    /\ LockIdle

\* The read branch of SipSocket::run: n bytes are read and added to the
\* buffer, then get_next_message is called once; its error leaves run.
SocketRead(n) ==
    /\ dec_impl = "socket"
    /\ dec_err = "none"
    /\ n \in ChunkSizes(wire, ReadBufferSize)
    /\ LET r == get_next_message(Cat(buffer, Take(wire, n)))
       IN /\ buffer' = r.buffer
          /\ frames' = IF r.item.none THEN frames ELSE Append(frames, r.item)
          /\ discarded' = IF get_next_packet_split(Cat(buffer, Take(wire, n))) = 4
                             /\ r.result = "ok" /\ r.item.none
                          THEN discarded + 1 ELSE discarded
          /\ dec_err' = IF r.result = "ok" THEN "none" ELSE r.result
    /\ wire' = Drop(wire, n)
    /\ UNCHANGED <<dec_impl, pending_message>>
    /\ UNCHANGED <<sipVars, ctxVars, hdrVars, tevVars, playVars, routeVars, lockVars>>

\* The stream that feeds SipMessageDecoder reads n bytes into src.
DecoderRead(n) ==
    /\ dec_impl = "decoder"
    /\ dec_err = "none"
    /\ n \in ChunkSizes(wire, BLen(wire))
    /\ buffer' = Cat(buffer, Take(wire, n))
    /\ wire' = Drop(wire, n)
    /\ UNCHANGED <<dec_impl, pending_message, frames, discarded, dec_err>>
    /\ UNCHANGED <<sipVars, ctxVars, hdrVars, tevVars, playVars, routeVars, lockVars>>

\* One call of SipMessageDecoder::decode.
DecoderDecode ==
    /\ dec_impl = "decoder"
    /\ dec_err = "none"
    /\ LET r == decode(pending_message, buffer)
       IN /\ buffer' = r.src
          /\ pending_message' = r.pending
          /\ frames' = IF r.item.none THEN frames ELSE Append(frames, r.item)
          /\ discarded' = IF pending_message.none
                             /\ get_next_packet_split(buffer) = 4
                             /\ r.result = "ok" /\ r.item.none
                          THEN discarded + 1 ELSE discarded
          /\ dec_err' = IF r.result = "ok" THEN "none" ELSE r.result
    /\ UNCHANGED <<dec_impl, wire>>
    /\ UNCHANGED <<sipVars, ctxVars, hdrVars, tevVars, playVars, routeVars, lockVars>>

DecNext ==
    \/ \E n \in ChunkSizes(wire, ReadBufferSize) : SocketRead(n)
    \/ \E n \in ChunkSizes(wire, BLen(wire)) : DecoderRead(n)
    \/ DecoderDecode

DecSpec == DecInit /\ [][DecNext]_vars

(***************************************************************************)
(* TelephoneEventsCodec::decode_payload                                    *)
(*                                                                         *)
(* A payload is a sequence of bytes: the event code, the byte whose top    *)
(* bit is the end flag (the rest is the volume), and the duration.         *)
(***************************************************************************)
\* payloads decoded in one behaviour
MaxTevPackets == 4
\* first bytes: three keys, and two codes that are no key
EventBytes == {0, 5, 15, 16, 255}
\* second bytes: end flag clear or set, volume 0 or 10
EndBytes == {0, 10, 128, 138}
Payloads ==
    {<<>>} \cup {<<e>> : e \in EventBytes}
           \cup {<<e, b>> : e \in EventBytes, b \in EndBytes}
           \cup {<<e, b, 0, 160>> : e \in EventBytes, b \in EndBytes}

\* TelephoneEvent::try_from_byte returns Ok
is_event(b) == b \in 0..15

\* payload.get(1) & 0b1000_0000 != 0
end_bit(b) == (b \div 128) % 2 = 1

\* decode_payload returns Err: no first byte, a first byte that is no event,
\* or no second byte
tev_error(payload) ==
    \/ Len(payload) < 1
    \/ ~is_event(payload[1])
    \/ Len(payload) < 2

decode_payload(payload) ==
    /\ tev_packets < MaxTevPackets
    /\ tev_packets' = tev_packets + 1
    /\ IF tev_error(payload)
       THEN /\ tev_result' = "err"
            /\ UNCHANGED <<pressed_keys, tev_out>>
       ELSE LET event == payload[1]
                end == end_bit(payload[2])
            IN IF ~end /\ event \in pressed_keys
               THEN /\ tev_result' = "nothing"
                    /\ UNCHANGED <<pressed_keys, tev_out>>
               ELSE /\ pressed_keys' = IF end THEN pressed_keys \ {event}
                                       ELSE pressed_keys \cup {event}
                    /\ tev_out' = Append(tev_out, <<event, end>>)
                    /\ tev_result' = "some"
    /\ UNCHANGED <<sipVars, ctxVars, hdrVars, decVars, playVars, routeVars, lockVars>>

TevInit == SipIdle /\ CtxIdle /\ HdrIdle /\ DecIdle /\ TevIdle /\ PlayIdle /\ RouteIdle /\ LockIdle

TevNext == \E payload \in Payloads : decode_payload(payload)

TevSpec == TevInit /\ [][TevNext]_vars

(***************************************************************************)
(* Call::block_for_output_empty and the output of the RTP session          *)
(*                                                                         *)
(* The application queues audio with send_audio and waits with             *)
(* block_for_output_empty; the RTP task moves the audio to the codec's     *)
(* buffer and sends a packet of it at every tick; the call handler tells   *)
(* the application of the end of the call on the control channel.          *)
(***************************************************************************)
\* send_audio calls in one behaviour
MaxAudio == 3
\* audio packets of the peer in the media channel at one time
MaxPeerAudio == 1
\* samples one packet takes from buffer_out: 48000 / 1000 * ptime * 2, ptime 20
SamplesPerPacket == 1920
\* append_to_buffer drops the audio when buffer_out holds more than this
BufferLimit == 5000
\* the samples of one send_audio call
AudioSizes == {1920, 3840}

\* get_codecs_from_sdp_session: the codecs in the order opus, pcmu, pcma;
\* receive_media gives the audio to the first of them.
Codecs == {"opus", "pcmu", "pcma"}

\* RTPCodec::append_to_buffer on a buffer of len samples: the length after
\* it.  PcmuCodec and PcmaCodec return before the append when the buffer
\* holds more than 5000 samples; OpusCodec always appends.
append_to_buffer(c, len, samples) ==
    IF c # "opus" /\ len > BufferLimit THEN len ELSE len + samples

PlayInit ==
    /\ SipIdle /\ CtxIdle /\ HdrIdle /\ DecIdle /\ TevIdle /\ RouteIdle /\ LockIdle
    /\ PlayStart
    /\ codec \in Codecs

\* Call::send_audio
send_audio(samples) ==
    /\ audio_sent < MaxAudio
    /\ audio_sent' = audio_sent + 1
    /\ media_in' = Append(media_in, samples)
    /\ UNCHANGED <<media_out, control_out, buffer_out, notified_empty, block, play_handler, codec>>
    /\ UNCHANGED <<sipVars, ctxVars, hdrVars, decVars, tevVars, routeVars, lockVars>>

\* RTPSession::handle_next, media_channel.receiver.recv(): receive_media
\* hands the audio to the codec, whose append_to_buffer drops it when the
\* buffer is over its limit.
receive_media ==
    /\ media_in # <<>>
    /\ media_in' = Tail(media_in)
    /\ buffer_out' = append_to_buffer(codec, buffer_out, Head(media_in))
    /\ UNCHANGED <<media_out, control_out, notified_empty, block, audio_sent, play_handler, codec>>
    /\ UNCHANGED <<sipVars, ctxVars, hdrVars, decVars, tevVars, routeVars, lockVars>>

\* A send_next_packet whose packets leave the latch as it is.
send_next_packet_latch_kept ==
    LET did_send_packets == buffer_out > 0
    IN /\ buffer_out' = IF buffer_out < SamplesPerPacket THEN 0
                        ELSE buffer_out - SamplesPerPacket
       /\ IF ~did_send_packets
          THEN /\ media_out' = IF ~notified_empty
                               THEN Append(media_out, "OutputEmpty") ELSE media_out
               /\ notified_empty' = TRUE
          ELSE UNCHANGED <<notified_empty, media_out>>
       /\ UNCHANGED <<media_in, control_out, block, audio_sent, play_handler, codec>>
       /\ UNCHANGED <<sipVars, ctxVars, hdrVars, decVars, tevVars, routeVars, lockVars>>

\* RTPSession::handle_next, audio_interval.tick(): send_next_packet.  The
\* codec gives a packet when its buffer holds samples.
send_next_packet ==
    LET did_send_packets == buffer_out > 0
    IN /\ buffer_out' = IF buffer_out < SamplesPerPacket THEN 0
                        ELSE buffer_out - SamplesPerPacket
       /\ IF ~did_send_packets
          THEN /\ media_out' = IF ~notified_empty
                               THEN Append(media_out, "OutputEmpty") ELSE media_out
               /\ notified_empty' = TRUE
          ELSE /\ notified_empty' = FALSE
               /\ UNCHANGED media_out
       /\ UNCHANGED <<media_in, control_out, block, audio_sent, play_handler, codec>>
       /\ UNCHANGED <<sipVars, ctxVars, hdrVars, decVars, tevVars, routeVars, lockVars>>

\* RTPSession::handle_next, udp_socket.recv_from: audio of the peer goes to
\* the application.
receive_packet ==
    /\ Len(SelectSeq(media_out, LAMBDA m : m = "Audio")) < MaxPeerAudio
    /\ media_out' = Append(media_out, "Audio")
    /\ UNCHANGED <<media_in, control_out, buffer_out, notified_empty, block, audio_sent, play_handler, codec>>
    /\ UNCHANGED <<sipVars, ctxVars, hdrVars, decVars, tevVars, routeVars, lockVars>>

\* CallHandler::notify_call_hangup
notify_call_hangup ==
    /\ play_handler = "running"
    /\ play_handler' = "terminated"
    /\ control_out' = Append(control_out, "Hangup")
    /\ UNCHANGED <<media_in, media_out, buffer_out, notified_empty, block, audio_sent, codec>>
    /\ UNCHANGED <<sipVars, ctxVars, hdrVars, decVars, tevVars, routeVars, lockVars>>

\* Drop for CallHandler, when call_task leaves its loop
PlayHandlerDrop ==
    /\ play_handler = "terminated"
    /\ play_handler' = "dropped"
    /\ control_out' = Append(control_out, "Finished")
    /\ UNCHANGED <<media_in, media_out, buffer_out, notified_empty, block, audio_sent, codec>>
    /\ UNCHANGED <<sipVars, ctxVars, hdrVars, decVars, tevVars, routeVars, lockVars>>

\* The application calls block_for_output_empty.
BlockCall ==
    /\ block # "blocked"
    /\ block' = "blocked"
    /\ UNCHANGED <<media_in, media_out, control_out, buffer_out, notified_empty, audio_sent, play_handler, codec>>
    /\ UNCHANGED <<sipVars, ctxVars, hdrVars, decVars, tevVars, routeVars, lockVars>>

\* block_for_output_empty, call_channel.receiver.recv(): it returns on any
\* control message, and on None when the handler dropped its sender.
BlockControl ==
    /\ block = "blocked"
    /\ \/ /\ control_out # <<>>
          /\ control_out' = Tail(control_out)
       \/ /\ control_out = <<>>
          /\ play_handler = "dropped"
          /\ UNCHANGED control_out
    /\ block' = "returned"
    /\ UNCHANGED <<media_in, media_out, buffer_out, notified_empty, audio_sent, play_handler, codec>>
    /\ UNCHANGED <<sipVars, ctxVars, hdrVars, decVars, tevVars, routeVars, lockVars>>

\* block_for_output_empty, media_channel.receiver.recv(): it returns on
\* OutputEmpty and drops any other media message.
BlockMedia ==
    /\ block = "blocked"
    /\ media_out # <<>>
    /\ media_out' = Tail(media_out)
    /\ block' = IF Head(media_out) = "OutputEmpty" THEN "returned" ELSE "blocked"
    /\ UNCHANGED <<media_in, control_out, buffer_out, notified_empty, audio_sent, play_handler, codec>>
    /\ UNCHANGED <<sipVars, ctxVars, hdrVars, decVars, tevVars, routeVars, lockVars>>

PlayNext ==
    \/ \E samples \in AudioSizes : send_audio(samples)
    \/ receive_media
    \/ send_next_packet
    \/ receive_packet
    \/ notify_call_hangup
    \/ PlayHandlerDrop
    \/ BlockCall
    \/ BlockControl
    \/ BlockMedia

PlaySpec == PlayInit /\ [][PlayNext]_vars

(***************************************************************************)
(* The routing of inbound messages by Call-ID                              *)
(*                                                                         *)
(* SocketData.call_channels with more than one dialog: the socket task     *)
(* reads messages of several Call-IDs, the dialogs drop their Receivers.   *)
(***************************************************************************)
\* messages the socket task reads in one behaviour
MaxRouted == 4
\* the Call-IDs of the messages read
RouteCallIds == {"c1", "c2"}

RouteInit ==
    /\ SipIdle /\ CtxIdle /\ HdrIdle /\ DecIdle /\ TevIdle /\ PlayIdle /\ RouteIdle
    /\ LockIdle

\* Mutant: a failed send empties the table.
prune_all(channels, id) == [c \in {} |-> <<>>]

\* call_channels.remove(&id)
prune(channels, id) == [c \in (DOMAIN channels) \ {id} |-> channels[c]]

\* The read branch of SipSocket::run for a decoded message: handle_call_message
\* forwards it when its Call-ID has an entry, and removes the entry when the
\* send fails; otherwise handle_message takes it, and handle_sip_request makes
\* the entry of an INVITE with create_call_channel.
RouteRecv(call_id, method) ==
    /\ route_msgs < MaxRouted
    /\ route_msgs' = route_msgs + 1
    /\ LET msg == [call_id |-> call_id, method |-> method, n |-> route_msgs + 1]
       IN /\ route_last' = msg
          /\ IF call_id \in DOMAIN route_channels
             THEN /\ IF call_id \in route_rx
                     THEN /\ Len(route_channels[call_id]) < CallChannelCap
                          /\ route_channels' =
                                 [route_channels EXCEPT ![call_id] = Append(@, msg)]
                     ELSE route_channels' = prune(route_channels, call_id)
                  /\ UNCHANGED <<route_rx, route_top>>
             ELSE /\ route_top' = Append(route_top, msg)
                  /\ IF method = "INVITE"
                     THEN /\ route_channels' =
                                 [c \in (DOMAIN route_channels) \cup {call_id} |->
                                     IF c = call_id THEN <<>> ELSE route_channels[c]]
                          /\ route_rx' = route_rx \cup {call_id}
                     ELSE UNCHANGED <<route_channels, route_rx>>
    /\ UNCHANGED <<sipVars, ctxVars, hdrVars, decVars, tevVars, playVars, lockVars>>

\* The dialog is over: its CallConnection, which holds the Receiver, is
\* dropped with the IncomingCall or the CallHandler that owns it.
RouteDropReceiver(call_id) ==
    /\ call_id \in route_rx
    /\ route_rx' = route_rx \ {call_id}
    /\ UNCHANGED <<route_channels, route_top, route_msgs, route_last>>
    /\ UNCHANGED <<sipVars, ctxVars, hdrVars, decVars, tevVars, playVars, lockVars>>

RouteNext ==
    \/ \E call_id \in RouteCallIds, method \in {"INVITE", "BYE"} : RouteRecv(call_id, method)
    \/ \E call_id \in RouteCallIds : RouteDropReceiver(call_id)

RouteSpec == RouteInit /\ [][RouteNext]_vars

(***************************************************************************)
(* The mutexes and the bounded channels                                    *)
(*                                                                         *)
(* The socket task, InnerSipManager::call and the calls, with the two      *)
(* mutexes (SipContext, SocketData) and the three bounded channels by      *)
(* their fill: the outbound channel, the inbound channel of one dialog     *)
(* that is not drained (an IncomingCall not yet accepted or rejected), and *)
(* the manager's incoming queue.  Messages for dialogs that drain their    *)
(* channel are delivered at once and are not counted.                      *)
(***************************************************************************)
LockInit ==
    /\ SipIdle /\ CtxIdle /\ HdrIdle /\ DecIdle /\ TevIdle /\ PlayIdle /\ RouteIdle
    /\ LockIdle

\* run(), read branch, a message of the undrained dialog: handle_call_message
\* locks SocketData and calls channel.send, which completes when the
\* channel has room; the guard is dropped on return.
LkLockData ==
    /\ lk_sock = "select"
    /\ lk_data = "free"
    /\ lk_data' = "socket"
    /\ lk_sock' = "forward"
    /\ UNCHANGED <<lk_mgr, lk_context, lk_out, lk_chan, lk_incoming>>
    /\ UNCHANGED <<sipVars, ctxVars, hdrVars, decVars, tevVars, playVars, routeVars>>

LkForward ==
    /\ lk_sock = "forward"
    /\ lk_chan < CallChannelCap
    /\ lk_chan' = lk_chan + 1
    /\ lk_data' = "free"
    /\ lk_sock' = "select"
    /\ UNCHANGED <<lk_mgr, lk_context, lk_out, lk_incoming>>
    /\ UNCHANGED <<sipVars, ctxVars, hdrVars, decVars, tevVars, playVars, routeVars>>

\* run(), read branch, a top-level INVITE: handle_sip_request makes the
\* routing entry (SocketData locked for that statement only), then locks
\* the SipContext for the statement that calls IncomingCall::try_from_request.
LkInvite ==
    /\ lk_sock = "select"
    /\ lk_data = "free"
    /\ lk_sock' = "want_context"
    /\ UNCHANGED <<lk_mgr, lk_context, lk_data, lk_out, lk_chan, lk_incoming>>
    /\ UNCHANGED <<sipVars, ctxVars, hdrVars, decVars, tevVars, playVars, routeVars>>

LkLockContext ==
    /\ lk_sock = "want_context"
    /\ lk_context = "free"
    /\ lk_context' = "socket"
    /\ lk_sock' = "ring"
    /\ UNCHANGED <<lk_mgr, lk_data, lk_out, lk_chan, lk_incoming>>
    /\ UNCHANGED <<sipVars, ctxVars, hdrVars, decVars, tevVars, playVars, routeVars>>

\* try_from_request: send_ringing puts 180 Ringing into the outbound
\* channel; the SipContext guard is dropped at the end of the statement.
LkRing ==
    /\ lk_sock = "ring"
    /\ lk_out < OutboundCap
    /\ lk_out' = lk_out + 1
    /\ lk_context' = "free"
    /\ lk_sock' = "enqueue"
    /\ UNCHANGED <<lk_mgr, lk_data, lk_chan, lk_incoming>>
    /\ UNCHANGED <<sipVars, ctxVars, hdrVars, decVars, tevVars, playVars, routeVars>>

\* handle_sip_request: incoming_call_sender.send(call)
LkEnqueue ==
    /\ lk_sock = "enqueue"
    /\ lk_incoming < IncomingCap
    /\ lk_incoming' = lk_incoming + 1
    /\ lk_sock' = "select"
    /\ UNCHANGED <<lk_mgr, lk_context, lk_data, lk_out, lk_chan>>
    /\ UNCHANGED <<sipVars, ctxVars, hdrVars, decVars, tevVars, playVars, routeVars>>

\* run(), message_receiver.recv(): the only reader of the outbound channel
LkWrite ==
    /\ lk_sock = "select"
    /\ lk_out > 0
    /\ lk_out' = lk_out - 1
    /\ UNCHANGED <<lk_sock, lk_mgr, lk_context, lk_data, lk_chan, lk_incoming>>
    /\ UNCHANGED <<sipVars, ctxVars, hdrVars, decVars, tevVars, playVars, routeVars>>

\* CallConnection::send_message of a call: a response, a BYE, an ACK
LkCallSends ==
    /\ lk_out < OutboundCap
    /\ lk_out' = lk_out + 1
    /\ UNCHANGED <<lk_sock, lk_mgr, lk_context, lk_data, lk_chan, lk_incoming>>
    /\ UNCHANGED <<sipVars, ctxVars, hdrVars, decVars, tevVars, playVars, routeVars>>

\* SipManager::recv_incoming_call of the application
LkRecvIncoming ==
    /\ lk_incoming > 0
    /\ lk_incoming' = lk_incoming - 1
    /\ UNCHANGED <<lk_sock, lk_mgr, lk_context, lk_data, lk_out, lk_chan>>
    /\ UNCHANGED <<sipVars, ctxVars, hdrVars, decVars, tevVars, playVars, routeVars>>

\* InnerSipManager::call: the SipContext is locked for the whole call,
LkCall ==
    /\ lk_mgr = "idle"
    /\ lk_context = "free"
    /\ lk_context' = "manager"
    /\ lk_mgr' = "want_data"
    /\ UNCHANGED <<lk_sock, lk_data, lk_out, lk_chan, lk_incoming>>
    /\ UNCHANGED <<sipVars, ctxVars, hdrVars, decVars, tevVars, playVars, routeVars>>

\* SocketData is locked for the statement that calls create_call_channel,
LkCallCreate ==
    /\ lk_mgr = "want_data"
    /\ lk_data = "free"
    /\ lk_mgr' = "invite"
    /\ UNCHANGED <<lk_sock, lk_context, lk_data, lk_out, lk_chan, lk_incoming>>
    /\ UNCHANGED <<sipVars, ctxVars, hdrVars, decVars, tevVars, playVars, routeVars>>

\* and OutgoingCall::try_from puts the INVITE into the outbound channel.
LkCallInvite ==
    /\ lk_mgr = "invite"
    /\ lk_out < OutboundCap
    /\ lk_out' = lk_out + 1
    /\ lk_context' = "free"
    /\ lk_mgr' = "idle"
    /\ UNCHANGED <<lk_sock, lk_data, lk_chan, lk_incoming>>
    /\ UNCHANGED <<sipVars, ctxVars, hdrVars, decVars, tevVars, playVars, routeVars>>

LockNext ==
    \/ LkLockData
    \/ LkForward
    \/ LkInvite
    \/ LkLockContext
    \/ LkRing
    \/ LkEnqueue
    \/ LkWrite
    \/ LkCallSends
    \/ LkRecvIncoming
    \/ LkCall
    \/ LkCallCreate
    \/ LkCallInvite

LockSpec == LockInit /\ [][LockNext]_vars

(***************************************************************************)
(* Helpers for the properties of the OutgoingCall                          *)
(***************************************************************************)
IsInviteRequest(m) == IsReq(m, "INVITE")
IsAckRequest(m) == IsReq(m, "ACK")

\* The OutgoingCall waits for an answer and none is stored yet.
OutWaiting == dir = "out" /\ dialog = "waiting" /\ out_response = NoMsg

\* A step of the wait that takes the message at the head of the dialog's
\* channel (a step of cancel() changes app_op, a step of the socket task
\* does not shorten the channel).
OutTakes ==
    /\ OutWaiting
    /\ call_queue # <<>>
    /\ app_op' = app_op
    /\ Len(call_queue') < Len(call_queue)

\* The wait goes on with nothing sent and nothing changed but the channel.
OutKeepsWaiting ==
    /\ dialog' = "waiting"
    /\ out_response' = NoMsg
    /\ app_result' = app_result
    /\ out_cseq' = out_cseq
    /\ sent' = sent
    /\ message_channel' = message_channel
    /\ call_queue' = Tail(call_queue)

(***************************************************************************)
(* C11 - what resolves the wait of an OutgoingCall                         *)
(***************************************************************************)
\* C11: while the OutgoingCall waits, a request and a 100, 180 or 183
\* response to the INVITE are taken without a reply and without a change of
\* state; the first 486, 600, 480 or 503 is stored as the answer and the call
\* resolves as Rejected with the status stored; the first 200 is stored as
\* the answer, which is the Accepted outcome of peek_call_response.
C11_WaitResolution ==
    [][/\ OutTakes =>
            LET msg == Head(call_queue)
            IN /\ msg.t = "req" => OutKeepsWaiting
               /\ (msg.t = "res" /\ msg.m = "INVITE" /\ msg.code \in {100, 180, 183})
                      => OutKeepsWaiting
               /\ (msg.t = "res" /\ msg.m = "INVITE"
                      /\ msg.code \in {486, 600, 480, 503, 200})
                      => /\ out_response' = msg
                         /\ sent' = sent
                         /\ dialog' = "waiting"
       /\ (dialog = "waiting" /\ out_response # NoMsg /\ app_op' = app_op
              /\ out_response' = NoMsg /\ out_response.code # 200)
            => /\ out_response.code \in {486, 600, 480, 503}
               /\ app_result' = "rejected"
               /\ dialog' = "rejected"
               /\ sent' = sent
      ]_vars

\* A 183 and a request were passed over, the wait is still on.
C11_Witness ==
    /\ OutWaiting
    /\ peer_msgs = 3
    /\ call_queue = <<Res("INVITE", 600, InitialCSeq, "")>>
    /\ sent = <<generate_invite(InitialCSeq, "")>>

\* A 503 resolved the call as Rejected.
C11_WitnessRejected ==
    /\ dialog = "rejected"
    /\ app_result = "rejected"
    /\ peer_msgs = 3
    /\ sent = <<generate_invite(InitialCSeq, "")>>

(***************************************************************************)
(* C12 - the 401 Unauthorized to the INVITE                                *)
(***************************************************************************)
\* The wait takes a 401 response to the INVITE.
OutTakes401 == OutTakes /\ IsRes(Head(call_queue), "INVITE", 401)

OutResolves200 ==
    /\ dir = "out" /\ dialog = "waiting"
    /\ out_response # NoMsg /\ out_response.code = 200
    /\ app_op' = app_op
    /\ out_response' = NoMsg

\* C13: on the 200 OK, when it has a To tag and an SDP that parses and the
\* outbound channel is open, exactly one ACK is handed to the channel, with
\* the CSeq number of the 200 OK, and the Call is made next; otherwise nothing
\* is sent, into_call_response returns an error and there is neither a Call
\* nor a task.  No ACK is sent at another step, so a Call of the OutgoingCall
\* exists only after exactly one ACK.
C13_AckThenCall ==
    [][/\ OutResolves200 =>
            IF out_response.x \notin {"notag", "badsdp"} /\ OutboundOpen
            THEN /\ sent' = Append(sent, Req("ACK", out_response.cseq, ""))
                 /\ dialog' = "spawning"
                 /\ app_result' = app_result
            ELSE /\ sent' = sent
                 /\ dialog' = "failed"
                 /\ app_result' = "err"
                 /\ NoCallNoTasks'
       /\ (dir = "out" /\ Count(sent', IsAckRequest) # Count(sent, IsAckRequest))
            => OutResolves200
       /\ (dir' = "out" /\ ~NoCallNoTasks')
            => /\ Count(sent', IsAckRequest) = 1
               /\ app_result' = "ok"
       /\ (dir' = "out" /\ dialog' = "failed") => NoCallNoTasks'
      ]_vars

\* The 200 OK answered the first INVITE after a 401 retry: the ACK has the
\* CSeq number of the 200 OK, and the application has the Call.
C13_Witness ==
    /\ dir = "out" /\ dialog = "call" /\ app_result = "ok" /\ call_held
    /\ sent = <<Req("INVITE", InitialCSeq, ""),
                Req("INVITE", InitialCSeq + 1, "auth"),
                Req("ACK", InitialCSeq, "")>>

(***************************************************************************)
(* C14 - the wait when the SIP connection is lost                          *)
(***************************************************************************)
\* The SIP connection is lost: the socket task has ended.
ConnectionLost == handle = "finished"

\* The recv() of the wait returns: a message is there, or the channel is
\* closed and recv() yields None, which peek_call_response turns into Err.
OutRecvReturns == call_queue # <<>> \/ CallChannelClosed

\* C14: when the SIP connection is lost while the OutgoingCall waits for an
\* answer, the wait does not block: its recv() returns, with a message left
\* in the channel or with the None of the closed channel that fails the wait.
C14_Claim == (OutWaiting /\ ConnectionLost) => OutRecvReturns

(***************************************************************************)
(* C15 - cancel() of an OutgoingCall                                       *)
(***************************************************************************)
\* The application calls cancel() on the OutgoingCall.
CancelStep == dir = "out" /\ dialog = "waiting" /\ app_op' = "cancel"

Stopped == ~inner

\* C16: once the manager is stopped the socket task is no longer running,
\* is_running() is false, and no step reads a message of the server, puts a
\* message into the dialog's channel or queues an IncomingCall.
C16_Claim ==
    [][Stopped =>
         /\ handle # "running"
         /\ ~is_running
         /\ peer_msgs' = peer_msgs
         /\ Len(call_queue') <= Len(call_queue)
         /\ Len(incoming_queue') <= Len(incoming_queue)
      ]_vars

(***************************************************************************)
(* C17 - the end of the TCP stream                                         *)
(***************************************************************************)
\* C17: once a read of the socket task has returned the end of the stream
\* (0 bytes), the run loop has exited and is_running() is false.
C17_Claim == stream_eof => (handle # "running" /\ ~is_running)

(***************************************************************************)
(* C18 - dropping the Call                                                 *)
(***************************************************************************)
\* The Call was dropped and no hangup() came before the drop: no Hangup
\* control is in the channel and none was handled.
DroppedWithoutHangup ==
    /\ dialog = "dropped"
    /\ ctl_in = <<>>
    /\ ~is_terminated
    /\ Count(sent, IsByeRequest) = 0

\* C18: after the drop of a Call on which hangup() was not called, no step
\* of the signaling task, at whatever point of its loop the drop found it,
\* hands a BYE to the outbound channel.
C18_Claim ==
    [][DroppedWithoutHangup => Count(sent', IsByeRequest) = 0]_vars

(***************************************************************************)
(* C19 - a failure that belongs to one dialog                              *)
(***************************************************************************)
\* The socket task read an INVITE from which no IncomingCall was built:
\* SessionParameters::from_request failed on it (its SDP does not parse).
ReadsInvalidInvite == peer_cseq' # peer_cseq /\ dir' = "none"

\* C19: an INVITE with an invalid SDP fails that dialog only: its routing
\* entry is removed and the socket task keeps running.
C19_Claim ==
    [][ReadsInvalidInvite => (handle' = "running" /\ CallId \notin call_channels')]_vars

(***************************************************************************)
(* C20 - a remote SDP the media session cannot use                         *)
(***************************************************************************)
\* C20: when the remote SDP cannot be used for the media session, accept()
\* and into_call_response do not return Ok and the application gets no Call.
C20_Claim ==
    (remote_sdp = "nocodec" /\ app_op \in {"accept", "answer"})
        => (app_result # "ok" /\ ~call_held)

(***************************************************************************)
(* C21 - the ports of the allocator                                        *)
(***************************************************************************)
\* The ports returned until the allocator went back to rtp_port_start.
FirstRound == IF wrap_at = 0 THEN ports ELSE SubSeq(ports, 1, wrap_at)

\* C21: the ports returned until the allocator wraps around are pairwise
\* distinct, even and inside [rtp_port_start, rtp_port_end], and the
\* allocator returns a port at every call.
C21_Claim ==
    /\ ~ctx_panic
    /\ \A i \in 1..Len(FirstRound) :
          /\ FirstRound[i] % 2 = 0
          /\ FirstRound[i] >= rtp_port_start
          /\ FirstRound[i] <= rtp_port_end
          /\ \A j \in 1..Len(FirstRound) : FirstRound[i] = FirstRound[j] => i = j

(***************************************************************************)
(* C22 - the CSeq numbers of the requests of a dialog                      *)
(***************************************************************************)
\* The positions in sent of the requests of the local endpoint.
LocalRequestAt == {i \in 1..Len(sent) : sent[i].t = "req"}

\* The CSeq number of the last INVITE sent before position i (0: none).
LastInviteBefore(i) ==
    LET before == {j \in 1..(i - 1) : IsInviteRequest(sent[j])}
    IN IF before = {} THEN 0
       ELSE sent[CHOOSE j \in before : \A k \in before : k <= j].cseq

C23_Claim ==
    hdr_reply # NoHeaders =>
        /\ hdr_reply.via = hdr_request.via
        /\ hdr_reply.from = hdr_request.from
        /\ hdr_reply.call_id = hdr_request.call_id
        /\ hdr_reply.cseq = hdr_request.cseq
        /\ hdr_reply.method = hdr_request.method
        /\ hdr_reply.to \in {hdr_request.to, [hdr_request.to EXCEPT !.tag = LocalTag]}

(***************************************************************************)
(* Helpers for the properties of the stream decoding                       *)
(***************************************************************************)
\* The bytes the step reads from the stream.
Arrived == Take(wire, BLen(wire) - BLen(wire'))

\* The step parses: a read of the socket task, or a call of decode (which
\* reads nothing).
DecodeStep ==
    \/ dec_impl = "socket" /\ wire' # wire
    \/ dec_impl = "decoder" /\ wire' = wire

\* The bytes the step parses.
AtDecode == Cat(buffer, Arrived)

\* The step looks for a header block (decode does not while the body of a
\* message is awaited).
SeeksHeader == DecodeStep /\ pending_message.none

KeepAliveFirst ==
    /\ SeeksHeader
    /\ Len(AtDecode) >= 4
    /\ SubSeq(AtDecode, 1, 4) = CRLFCRLF

\* The first header block of the bytes parsed is one that rsip refuses.
MalformedFirst ==
    /\ SeeksHeader
    /\ get_next_packet_split(AtDecode) > 4
    /\ ~well_formed(Take(AtDecode, get_next_packet_split(AtDecode)))

(***************************************************************************)
(* C24: a keep-alive, CRLFCRLF at the very start of the buffer, is never   *)
(* parsed as a SIP message: the step that finds it consumes exactly its    *)
(* four bytes, produces no message and no error, and leaves the bytes that *)
(* follow it in the buffer for the next decode.  It holds for the socket   *)
(* task's own parsing and for SipMessageDecoder.                           *)
(***************************************************************************)
C24_KeepAliveDiscarded ==
    [][KeepAliveFirst =>
          /\ buffer' = Drop(AtDecode, 4)
          /\ frames' = frames
          /\ pending_message' = pending_message
          /\ dec_err' = "none"]_vars

\* A keep-alive was discarded and the header block that followed it is at
\* the start of the buffer, untouched.
C24_Witness ==
    /\ discarded = 1
    /\ frames = <<>>
    /\ dec_err = "none"
    /\ get_next_packet_split(buffer) > 4
    /\ buffer[1].k = "h"

(***************************************************************************)
(* C25: a message whose Content-Length header exceeds the cap of 50 000    *)
(* bytes is rejected: no message is yielded for it.  It fails:             *)
(* SipMessageDecoder::decode lowers the length to the cap with min() and   *)
(* yields the message with the first 50 000 bytes as its body; the rest of *)
(* the body stays in the buffer where the next decode looks for a header   *)
(* block.  The socket task's get_next_message has no cap.                  *)
(***************************************************************************)
C25_Claim ==
    \A i \in 1..Len(frames) : frames[i].content_length <= MAX_CONTENT_LENGTH

(***************************************************************************)
(* C26: a malformed header block gives a decode error for that message     *)
(* only: the loop that reads the stream keeps running.  It fails: in       *)
(* SipSocket::run the error of get_next_message leaves run with `?`, which *)
(* ends the socket task; SipMessageDecoder::decode unwraps the result of   *)
(* the parse and panics.                                                   *)
(***************************************************************************)
C26_Claim == [][MalformedFirst => dec_err' = "none"]_vars

(***************************************************************************)
(* Helpers for the properties of the telephone events                      *)
(***************************************************************************)
\* The notifications of one key, in the order they were returned.
RECURSIVE OfKey(_, _)
OfKey(out, key) ==
    IF out = <<>> THEN <<>>
    ELSE IF Head(out)[1] = key
         THEN <<Head(out)[2]>> \o OfKey(Tail(out), key)
         ELSE OfKey(Tail(out), key)

\* KeyDown (end = FALSE) and KeyUp (end = TRUE) take turns.
Alternates(ends) == \A i \in 1..(Len(ends) - 1) : ends[i] # ends[i + 1]

(***************************************************************************)
(* C27: edge detection of the telephone events: for every sequence of      *)
(* packets and for each key, the KeyDown and KeyUp notifications           *)
(* alternate.  It fails: decode_payload returns KeyUp for every packet     *)
(* with the end bit, whether or not the key is pressed, so the end packet  *)
(* that a sender repeats gives KeyUp again, and an end packet for a key    *)
(* never pressed gives a KeyUp without a KeyDown.  The rules for a single  *)
(* packet hold as the claim states them (TevPacketRules).                  *)
(***************************************************************************)
C27_Claim == \A key \in 0..15 : Alternates(OfKey(tev_out, key))

\* What one packet does, as the claim states it: KeyDown for a key not
\* pressed, nothing for a key pressed, KeyUp and removal with the end bit,
\* and an error that leaves the pressed set alone for a code above 15 or
\* fewer than two bytes.
TevPacketRules ==
    [][tev_packets' # tev_packets =>
        \/ /\ tev_result' = "err"
           /\ pressed_keys' = pressed_keys
           /\ tev_out' = tev_out
        \/ /\ tev_result' = "nothing"
           /\ pressed_keys' = pressed_keys
           /\ tev_out' = tev_out
           /\ \E key \in pressed_keys : TRUE
        \/ /\ tev_result' = "some"
           /\ \E key \in 0..15 :
                \/ /\ key \notin pressed_keys
                   /\ tev_out' = Append(tev_out, <<key, FALSE>>)
                   /\ pressed_keys' = pressed_keys \cup {key}
                \/ /\ tev_out' = Append(tev_out, <<key, TRUE>>)
                   /\ pressed_keys' = pressed_keys \ {key}]_vars

(***************************************************************************)
(* C28: Call::block_for_output_empty returns only after the RTP session    *)
(* has reported OutputEmpty for the audio passed to send_audio before, or  *)
(* the call has finished.  Read in favour of the code: a return on a       *)
(* control message, or on the closed control channel, counts as the call   *)
(* having finished; any other return happens with no audio left in the     *)
(* media channel or in the codec's buffer.  It fails: the OutputEmpty of   *)
(* earlier audio that nobody read is still in the media channel, and       *)
(* block_for_output_empty returns on it while the audio queued since then  *)
(* has not been sent.                                                      *)
(***************************************************************************)
C28_Claim ==
    [][block = "blocked" /\ block' = "returned" /\ media_out' # media_out =>
          media_in = <<>> /\ buffer_out = 0]_vars

(***************************************************************************)
(* C29: dialog routing.  An inbound message whose Call-ID has an entry in  *)
(* the routing table goes to that call's inbound channel only, never to    *)
(* another call and never to the top-level handler; when the call's        *)
(* receiver is gone, exactly that entry is removed, every other entry is   *)
(* unchanged and the message is dropped.                                   *)
(***************************************************************************)
C29_DialogRouting ==
    [][(route_msgs' # route_msgs /\ route_last'.call_id \in DOMAIN route_channels) =>
          LET msg == route_last'
              id == msg.call_id
          IN /\ route_top' = route_top
             /\ \A c \in (DOMAIN route_channels) \ {id} :
                    /\ c \in DOMAIN route_channels'
                    /\ route_channels'[c] = route_channels[c]
             /\ IF id \in route_rx
                THEN /\ DOMAIN route_channels' = DOMAIN route_channels
                     /\ route_channels'[id] = Append(route_channels[id], msg)
                ELSE DOMAIN route_channels' = (DOMAIN route_channels) \ {id}]_vars

\* The entry of c1 was removed after its receiver had gone (c1 had an entry:
\* its INVITE was handled at top level), and the entry of c2 is still there
\* with the message forwarded to it.
C29_Witness ==
    /\ "c1" \notin DOMAIN route_channels
    /\ \E i \in 1..Len(route_top) :
           route_top[i].call_id = "c1" /\ route_top[i].method = "INVITE"
    /\ "c2" \in DOMAIN route_channels
    /\ Len(route_channels["c2"]) = 1

(***************************************************************************)
(* C30: a dialog's entry in the Call-ID routing table is removed when the  *)
(* dialog terminates, so the table holds entries for live dialogs only: a  *)
(* dialog whose Receiver was dropped (the IncomingCall, OutgoingCall or    *)
(* CallHandler that owned it is gone) has no entry while the socket task   *)
(* runs.  It fails: nothing removes the entry at the end of the dialog;    *)
(* only a later message with the same Call-ID, whose forward fails, does,  *)
(* or the end of the socket task.                                          *)
(***************************************************************************)
C30_Claim ==
    (handle = "running" /\ dir # "none" /\ ~call_rx) => CallId \notin call_channels

(***************************************************************************)
(* C31: for every top-level INVITE one routing entry is registered for its *)
(* Call-ID and one IncomingCall is built for the manager's incoming queue. *)
(* It fails: handle_sip_request registers the entry with                   *)
(* create_call_channel before IncomingCall::try_from_request; when         *)
(* SessionParameters::from_request fails on the INVITE (its SDP does not   *)
(* parse) no port is allocated and no IncomingCall is built, and the error *)
(* leaves run().                                                           *)
(***************************************************************************)
C31_Claim ==
    [][peer_cseq' # peer_cseq =>
          /\ CallId \in call_channels'
          /\ dir' = "in"
          /\ sock_pc' = "ring"]_vars

(***************************************************************************)
(* Helpers for the properties of the CallHandler's SIP messages            *)
(***************************************************************************)
\* The CallHandler takes a message from the dialog channel.
HandlerTakes == h_pc = "select" /\ h_pc' = "check" /\ call_queue' # call_queue

(***************************************************************************)
(* C32: in an established dialog a BYE of the peer makes the CallHandler   *)
(* send one 200 OK for it, notify Hangup and terminate, also when the      *)
(* 200 OK cannot be sent; any other request and any response leaves the    *)
(* terminated flag and the CSeq as they are, and nothing is sent or        *)
(* notified.                                                               *)
(***************************************************************************)
C32_ByeOnly ==
    [][HandlerTakes =>
          LET msg == Head(call_queue)
          IN /\ cseq' = cseq
             /\ IF IsReq(msg, "BYE")
                THEN /\ is_terminated'
                     /\ ctl_out' = IF call_held THEN Append(ctl_out, "Hangup") ELSE ctl_out
                     /\ sent' = IF OutboundOpen
                                THEN Append(sent, Res("BYE", 200, msg.cseq, ""))
                                ELSE sent
                ELSE /\ is_terminated' = is_terminated
                     /\ ctl_out' = ctl_out
                     /\ sent' = sent
                     /\ message_channel' = message_channel]_vars

\* The handler is terminated although no BYE of ours and no 200 OK for a BYE
\* was ever sent: a BYE of the peer was handled after the socket task had
\* ended, and its 200 OK could not be sent.
C32_Witness ==
    /\ is_terminated
    /\ \A i \in 1..Len(sent) : ~IsReq(sent[i], "BYE") /\ ~IsRes(sent[i], "BYE", 200)

(***************************************************************************)
(* Helpers for the properties of the mutexes and the bounded channels      *)
(***************************************************************************)
\* The socket task is suspended in channel.send on the full dialog channel.
SockWaitsDialog == lk_sock = "forward" /\ lk_chan = CallChannelCap

\* The socket task is suspended in send_ringing on the full outbound channel.
SockWaitsOutbound == lk_sock = "ring" /\ lk_out = OutboundCap

\* InnerSipManager::call is suspended in the send of the INVITE on the full
\* outbound channel.
CallWaitsOutbound == lk_mgr = "invite" /\ lk_out = OutboundCap

(***************************************************************************)
(* C33: the mutexes of the routing table and of the SipContext are never   *)
(* held while their holder is suspended at an await: not while the socket  *)
(* task forwards into a bounded dialog channel, not while the INVITE or    *)
(* the 180 Ringing is sent into the bounded outbound channel.  It fails:   *)
(* handle_call_message keeps the SocketData guard over channel.send;       *)
(* handle_sip_request keeps the SipContext guard over try_from_request and *)
(* its send_ringing; InnerSipManager::call keeps context_lock over         *)
(* OutgoingCall::try_from and its send of the INVITE.                      *)
(***************************************************************************)
C33_Claim ==
    /\ SockWaitsDialog => lk_data # "socket"
    /\ SockWaitsOutbound => lk_context # "socket"
    /\ CallWaitsOutbound => lk_context # "manager"

(***************************************************************************)
(* C37: the socket task never blocks for ever on its own outbound channel. *)
(* It fails: with 64 messages queued by the calls the socket task waits in *)
(* send_ringing for room in the channel that only its own select loop     *)
(* empties; from that state no step of any task makes room.                *)
(***************************************************************************)
C37_Claim == ~SockWaitsOutbound

(***************************************************************************)
(* C38: a dialog that does not drain its inbound channel does not stop the *)
(* socket task from delivering to other dialogs or from writing, nor       *)
(* Manager::call from completing.  It fails: the socket task waits in      *)
(* channel.send on the full channel of that dialog, reading and writing    *)
(* nothing, and holds the SocketData mutex that InnerSipManager::call      *)
(* waits for.                                                              *)
(***************************************************************************)
C38_Claim == ~(SockWaitsDialog /\ lk_mgr = "want_data" /\ lk_out > 0)

(***************************************************************************)
(* C34: the framing of the socket task does not depend on how the stream   *)
(* is cut into reads: a read whose first header block is well formed gives *)
(* no error whatever part of the body it brought, and after it no message  *)
(* whose bytes have all been read is left waiting in the buffer.  It       *)
(* fails: try_parse_body returns Err when the body has not all arrived     *)
(* (the header block is already drained, and the error leaves run), and    *)
(* run calls get_next_message once per read, so a message that came in the *)
(* same read as a keep-alive or as another message stays in the buffer     *)
(* until the peer sends more bytes.                                        *)
(***************************************************************************)
SocketParses == dec_impl = "socket" /\ DecodeStep

C34_Claim ==
    [][(SocketParses /\ ~MalformedFirst) =>
          /\ dec_err' = "none"
          /\ get_next_message(buffer').item.none]_vars

(***************************************************************************)
(* Helpers for the properties of the RTP session's output                  *)
(***************************************************************************)
\* The step puts an OutputEmpty on the media channel.
EmptySent == media_out' = Append(media_out, "OutputEmpty")

\* The step is a tick on which the codec gave a packet.
PacketSent == buffer_out' < buffer_out

\* The OutputEmpty notifications waiting in the media channel.
EmptiesIn(q) == Len(SelectSeq(q, LAMBDA m : m = "OutputEmpty"))

MaxWrite == CHOOSE n \in AudioSizes : \A m \in AudioSizes : m <= n

C36_Claim == buffer_out <= BufferLimit + MaxWrite

(***************************************************************************)
(* C39: every final response to the INVITE ends the wait of the            *)
(* OutgoingCall: when peek_call_response / into_call_response takes a      *)
(* response to the INVITE with a status of 200 or more, other than the 401 *)
(* that is answered with a new INVITE, the response is stored or the wait  *)
(* is left.  It fails: handle_response stores 200, 486, 600, 480 and 503   *)
(* only; any other final status (404, 487, 603) falls into the `_` arm,    *)
(* is logged, and the loop goes back to recv() for a message that the      *)
(* server, whose transaction is over, does not send.                       *)
(***************************************************************************)
OutTakesFinal ==
    /\ OutTakes
    /\ Head(call_queue).t = "res"
    /\ Head(call_queue).m = "INVITE"
    /\ Head(call_queue).code >= 200
    /\ Head(call_queue).code # 401

C39_Claim == [][OutTakesFinal => (out_response' # NoMsg \/ dialog' # "waiting")]_vars

(***************************************************************************)
(* C40: for every configuration that from_config accepts, every port that  *)
(* get_next_udp_port returns, before and after the allocator wrapped, lies *)
(* in [rtp_port_start, rtp_port_end], and `next_udp_port += 2` never       *)
(* overflows the u16.  It fails with rtp_port_end >= 65534: the addition   *)
(* is made before the comparison with rtp_port_end, so from 65534 or 65535 *)
(* it overflows; with overflow checks that is a panic, without them the    *)
(* counter wraps to 0 or 1, which is not above rtp_port_end, stays, and is *)
(* the port returned next.                                                 *)
(***************************************************************************)
C40_Claim ==
    /\ ~ctx_panic
    /\ \A i \in 1..Len(ports) : ports[i] \in rtp_port_start..rtp_port_end
====
